---- MODULE Spec2Model ----
(***************************************************************************)
(* Model of the evaluation harness of Devcode-Agent (src/eval): the        *)
(* localization metrics, the faithfulness check, the taxonomy classifier,  *)
(* the per-task evaluation, the SUT invoker, the task/golden loaders and   *)
(* the localization runner with its canary gate.                           *)
(*                                                                         *)
(* Conventions.                                                            *)
(*  - A Python dict is a function over strings; a missing key is a key     *)
(*    outside DOMAIN (Get models dict.get).  A list is a sequence.         *)
(*  - A float that the code only compares is an exact fraction <<n, d>>    *)
(*    with d > 0 (the operands are quotients of small integers, for which  *)
(*    the float comparison and the exact comparison agree).                *)
(*  - A path string is the sequence of its tokens, "/" being a token, so   *)
(*    that Python's substring test `needle in p` is a search for a         *)
(*    contiguous sub-sequence.                                             *)
(*  - The text of a quote is the set of symbols a regex search finds in it.*)
(***************************************************************************)
EXTENDS Integers, Sequences, FiniteSets, TLC

VARIABLES
    pc,         \* position of main() of run_localization.py
    args,       \* parsed command line: dry_run, suite, include_variants
    cfg,        \* the EvalConfig returned by get_config()
    tasks,      \* _run_suite: the tasks loaded for the suite being run
    goldens,    \* _run_suite: the merged golden map of that suite
    rows,       \* _run_suite: the rows accumulated so far
    sutLog,     \* every SUT invocation so far: phase, task id, prediction
    gate,       \* assert_canary_gate: code returned and failure list
    exit_code,  \* the code handed to sys.exit, or "none"
    run_id,     \* the identifier drawn by new_run_id, or "none"
    reports,    \* reports directory: run_id -> files written for the run
    registry,   \* registry/runs.parquet and registry/runs.csv
    stdout,     \* the W1 summary main() printed, once it has
    completed,  \* history: the runs that appended their registry row, in order
    loaded,     \* the DataFrame the Run Comparator loaded last
    ev          \* the last pure evaluation: its inputs and its result

vars == <<pc, args, cfg, tasks, goldens, rows, sutLog, gate, exit_code,
          run_id, reports, registry, stdout, completed, loaded, ev>>

runVars == <<pc, args, cfg, tasks, goldens, rows, sutLog, gate, exit_code,
             run_id, reports, registry, stdout, completed, loaded>>

-----------------------------------------------------------------------------
(* Python containers *)

EmptyDict == [k \in {} |-> 0]

Get(d, k, default) == IF k \in DOMAIN d THEN d[k] ELSE default

Put(d, k, v) == [x \in (DOMAIN d) \cup {k} |-> IF x = k THEN v ELSE d[x]]

SetDefault(d, k, v) == IF k \in DOMAIN d THEN d ELSE Put(d, k, v)

ToSet(s) == {s[i] : i \in 1..Len(s)}

SeqsUpTo(S, n) == UNION {[1..m -> S] : m \in 0..n}

\* `needle in p` for strings given as token sequences
Contains(p, needle) ==
    \E i \in 1..(Len(p) - Len(needle) + 1) :
        SubSeq(p, i, i + Len(needle) - 1) = needle

-----------------------------------------------------------------------------
(* Exact fractions standing for the floats of the metrics *)

Frac(n, d) == <<n, d>>
Zero == Frac(0, 1)
One == Frac(1, 1)
FLess(x, y) == x[1] * y[2] < y[1] * x[2]
FEq(x, y) == x[1] * y[2] = y[1] * x[2]
FMax(x, y) == IF FLess(x, y) THEN y ELSE x
FAdd(x, y) == Frac(x[1] * y[2] + y[1] * x[2], x[2] * y[2])
FDivInt(x, n) == Frac(x[1], x[2] * n)

IMax(a, b) == IF a >= b THEN a ELSE b
IMin(a, b) == IF a <= b THEN a ELSE b

-----------------------------------------------------------------------------
(* eval/metrics/localization.py *)

\* the intersection length not clipped at 0
_iou_unclipped(a, b) ==
    LET inter == IMin(a[2], b[2]) - IMax(a[1], b[1])
        union == IMax(a[2] - a[1], 0) + IMax(b[2] - b[1], 0) - inter
    IN  IF union > 0 THEN Frac(inter, union) ELSE Zero

_iou(a, b) ==
    LET inter == IMax(0, IMin(a[2], b[2]) - IMax(a[1], b[1]))
        union == IMax(a[2] - a[1], 0) + IMax(b[2] - b[1], 0) - inter
    IN  IF union > 0 THEN Frac(inter, union) ELSE Zero

path_match_all_only_subset(pred_paths, golden_paths) ==
    IF ToSet(pred_paths) \subseteq ToSet(golden_paths) THEN 1 ELSE 0

path_match_all_only(pred_paths, golden_paths) ==
    IF ToSet(pred_paths) = ToSet(golden_paths) THEN 1 ELSE 0

\* only the first golden range is compared
best_iou_first(p, golden_line_ranges, best) ==
    IF golden_line_ranges = <<>> THEN best
    ELSE FMax(best, _iou(p, Head(golden_line_ranges)))

RECURSIVE best_iou(_, _, _)
best_iou(p, golden_line_ranges, best) ==
    IF golden_line_ranges = <<>> THEN best
    ELSE best_iou(p, Tail(golden_line_ranges),
                  FMax(best, _iou(p, Head(golden_line_ranges))))

RECURSIVE FSum(_)
FSum(s) == IF s = <<>> THEN Zero ELSE FAdd(Head(s), FSum(Tail(s)))

RECURSIVE FMinSeq(_)
FMinSeq(s) ==
    IF Len(s) = 1 THEN s[1]
    ELSE IF FLess(FMinSeq(Tail(s)), Head(s)) THEN FMinSeq(Tail(s)) ELSE Head(s)

\* the minimum is the value of the first predicted range
line_iou_scores_first(pred_line_ranges, golden_line_ranges) ==
    IF pred_line_ranges = <<>> \/ golden_line_ranges = <<>>
    THEN [per_pair |-> <<>>, avg |-> Zero, min |-> Zero]
    ELSE LET pairs == [i \in 1..Len(pred_line_ranges) |->
                          best_iou(pred_line_ranges[i], golden_line_ranges, Zero)]
         IN  [per_pair |-> pairs,
              avg |-> FDivInt(FSum(pairs), Len(pairs)),
              min |-> pairs[1]]

\* localization.py:19-30 in exact arithmetic
line_iou_scores(pred_line_ranges, golden_line_ranges) ==
    IF pred_line_ranges = <<>> \/ golden_line_ranges = <<>>
    THEN [per_pair |-> <<>>, avg |-> Zero, min |-> Zero]
    ELSE LET pairs == [i \in 1..Len(pred_line_ranges) |->
                          best_iou(pred_line_ranges[i], golden_line_ranges, Zero)]
         IN  [per_pair |-> pairs,
              avg |-> FDivInt(FSum(pairs), Len(pairs)),
              min |-> FMinSeq(pairs)]

\* Binary64 values of the scores.  A positive float is [e, hi, lo] with
\* the 53 bits of its significand hi * 2^26 + lo, 2^26 <= hi < 2^27 and
\* lo < 2^26, the leading bit of weight 2^e; 0.0 is all zero.  Every
\* operation rounds to nearest, ties to even.
F64Zero == [e |-> 0, hi |-> 0, lo |-> 0]

\* the float x or, when the bits cut off round up, the next float above
F64Round(x, up) ==
    IF ~up THEN x
    ELSE IF x.lo + 1 < 2^26 THEN [x EXCEPT !.lo = x.lo + 1]
    ELSE IF x.hi + 1 < 2^27 THEN [x EXCEPT !.hi = x.hi + 1, !.lo = 0]
    ELSE [e |-> x.e + 1, hi |-> 2^26, lo |-> 0]

\* localization.py:10  inter / union as a float, for 0 <= a <= b < 32
F64Div(a, b) ==
    IF a = 0 THEN F64Zero
    ELSE LET s == CHOOSE k \in 0..5 : a * 2^k >= b /\ (k = 0 \/ a * 2^(k - 1) < b)
             r0 == a * 2^s - b
             q1 == (r0 * 2^26) \div b
             r1 == (r0 * 2^26) % b
             q2 == (r1 * 2^26) \div b
             r2 == (r1 * 2^26) % b
         IN  F64Round([e |-> -s, hi |-> (2^26) + q1, lo |-> q2],
                      2 * r2 > b \/ (2 * r2 = b /\ q2 % 2 = 1))

\* localization.py:28  one addition of sum(pairs), for floats whose
\* exponents differ by 26 at most
F64Add(x, y) ==
    IF x.hi = 0 THEN y
    ELSE IF y.hi = 0 THEN x
    ELSE LET big == IF x.e >= y.e THEN x ELSE y
             small == IF x.e >= y.e THEN y ELSE x
             P == 2^(big.e - small.e)
             y_lo == ((small.hi % P) * (2^26 \div P)) + (small.lo \div P)
             lost == small.lo % P
             lo_sum == big.lo + y_lo
             hi1 == big.hi + (small.hi \div P) + (lo_sum \div 2^26)
             lo1 == lo_sum % 2^26
             lo2 == ((hi1 % 2) * 2^25) + (lo1 \div 2)
             lost2 == ((lo1 % 2) * P) + lost
         IN  IF hi1 < 2^27
             THEN F64Round([e |-> big.e, hi |-> hi1, lo |-> lo1],
                           2 * lost > P \/ (2 * lost = P /\ lo1 % 2 = 1))
             ELSE F64Round([e |-> big.e + 1, hi |-> hi1 \div 2, lo |-> lo2],
                           lost2 > P \/ (lost2 = P /\ lo2 % 2 = 1))

\* localization.py:28  sum(pairs) / len(pairs), for 1 <= n <= 16
F64DivInt(x, n) ==
    IF x.hi = 0 THEN x
    ELSE LET z == CHOOSE k \in 0..4 :
                    /\ (x.hi * 2^k) + ((x.lo * 2^k) \div 2^26) >= n * 2^26
                    /\ k = 0 \/ (x.hi * 2^(k - 1)) + ((x.lo * 2^(k - 1)) \div 2^26)
                                    < n * 2^26
             hn == (x.hi * 2^z) + ((x.lo * 2^z) \div 2^26)
             t == ((hn % n) * 2^26) + ((x.lo * 2^z) % 2^26)
         IN  F64Round([e |-> x.e - z, hi |-> hn \div n, lo |-> t \div n],
                      2 * (t % n) > n \/ (2 * (t % n) = n /\ (t \div n) % 2 = 1))

F64Less(x, y) ==
    IF y.hi = 0 THEN FALSE
    ELSE IF x.hi = 0 THEN TRUE
    ELSE \/ x.e < y.e
         \/ x.e = y.e /\ x.hi < y.hi
         \/ x.e = y.e /\ x.hi = y.hi /\ x.lo < y.lo

\* sum(pairs) of CPython before 3.12: the floats are added from the left
RECURSIVE F64Sum(_, _)
F64Sum(acc, fs) ==
    IF fs = <<>> THEN acc ELSE F64Sum(F64Add(acc, F64Div(Head(fs)[1], Head(fs)[2])), Tail(fs))

\* localization.py:27-30: the floats avg and min of the result.  Each
\* per-range value is the correctly rounded quotient of the exact fraction.
line_iou_scores_f64(pred_line_ranges, golden_line_ranges) ==
    LET exact == line_iou_scores(pred_line_ranges, golden_line_ranges)
    IN  IF exact.per_pair = <<>> THEN [avg |-> F64Zero, min |-> F64Zero]
        ELSE [avg |-> F64DivInt(F64Sum(F64Zero, exact.per_pair), Len(exact.per_pair)),
              min |-> F64Div(exact.min[1], exact.min[2])]

\* inputs.symbol absent or empty: the check does not apply.  A quote is the
\* set of symbols pat.search finds in its text.
symbol_presence(pred_paths, quotes, inputs) ==
    LET symbol == Get(inputs, "symbol", "")
    IN  IF symbol = ""
        THEN [symbol_match |-> 1, symbol_presence_rate |-> One]
        ELSE IF pred_paths = <<>>
        THEN [symbol_match |-> 0, symbol_presence_rate |-> Zero]
        ELSE LET present_any == \E i \in 1..Len(quotes) : symbol \in quotes[i]
             IN  [symbol_match |-> IF present_any THEN 1 ELSE 0,
                  symbol_presence_rate |-> IF present_any THEN One ELSE Zero]

evaluate_localization(pred_answer, golden, inputs) ==
    LET pred_paths == Get(pred_answer, "paths", <<>>)
        pred_ranges == Get(pred_answer, "line_ranges", <<>>)
        gold_paths == Get(golden, "paths", <<>>)
        gold_ranges == Get(golden, "line_ranges", <<>>)
        ious == line_iou_scores(pred_ranges, gold_ranges)
        sym == symbol_presence(pred_paths, Get(pred_answer, "quotes", <<>>), inputs)
    IN  [path_match |-> path_match_all_only(pred_paths, gold_paths),
         line_iou_avg |-> ious.avg,
         line_iou_min |-> ious.min,
         symbol_match |-> sym.symbol_match,
         symbol_presence_rate |-> sym.symbol_presence_rate]

-----------------------------------------------------------------------------
(* eval/metrics/faithfulness.py *)

\* the quote rule tried before the citation-overlap rule
evaluate_faithfulness_quotes_first(answer, citations) ==
    LET paths == Get(answer, "paths", <<>>)
        quotes == Get(answer, "quotes", <<>>)
        c_paths == {Get(citations[i], "path", <<>>) : i \in 1..Len(citations)}
                      \ {<<>>}
    IN  IF citations = <<>>
        THEN [faithful |-> 0, faithfulness_reason |-> "cite_missing"]
        ELSE IF quotes = <<>>
        THEN [faithful |-> 0, faithfulness_reason |-> "no_quotes"]
        ELSE IF paths # <<>> /\ ToSet(paths) \cap c_paths = {}
        THEN [faithful |-> 0, faithfulness_reason |-> "cite_irrelevant"]
        ELSE [faithful |-> 1, faithfulness_reason |-> "ok"]

evaluate_faithfulness(answer, citations) ==
    LET paths == Get(answer, "paths", <<>>)
        quotes == Get(answer, "quotes", <<>>)
        c_paths == {Get(citations[i], "path", <<>>) : i \in 1..Len(citations)}
                      \ {<<>>}
    IN  IF citations = <<>>
        THEN [faithful |-> 0, faithfulness_reason |-> "cite_missing"]
        ELSE IF paths # <<>> /\ ToSet(paths) \cap c_paths = {}
        THEN [faithful |-> 0, faithfulness_reason |-> "cite_irrelevant"]
        ELSE IF quotes = <<>>
        THEN [faithful |-> 0, faithfulness_reason |-> "no_quotes"]
        ELSE [faithful |-> 1, faithfulness_reason |-> "ok"]

-----------------------------------------------------------------------------
(* eval/metrics/taxonomy.py *)

LABEL_WRONG_PATH == "wrong_path"
LABEL_MISSING_PATH == "missing_path"
LABEL_WRONG_LINE == "wrong_line"
LABEL_SYMBOL_ABSENT == "symbol_absent"
LABEL_CITE_MISSING == "cite_missing"
LABEL_CITE_IRRELEVANT == "cite_irrelevant"
LABEL_VENDOR_HIT == "vendor_hit"
LABEL_TEST_INSTEAD_OF_SRC == "test_instead_of_src"
LABEL_LATENCY_SLO == "latency_slo"
LABEL_COST_SLO == "cost_slo"
LABEL_OK == "ok"
None == "None"

default_primary_ok(gpaths) == LABEL_OK

\* taxonomy.py:55
default_primary(gpaths) ==
    IF gpaths # {} THEN LABEL_OK ELSE LABEL_MISSING_PATH

\* the line rule tried before the path rules
primary_label_line_first(ppaths, gpaths, iou_min, thr) ==
    LET p1 == IF FLess(iou_min, thr) THEN LABEL_WRONG_LINE ELSE None
        p2 == IF p1 # None THEN p1
              ELSE IF ppaths = {} THEN LABEL_MISSING_PATH
              ELSE IF gpaths # {} /\ ppaths # gpaths THEN LABEL_WRONG_PATH
              ELSE None
    IN  IF p2 # None THEN p2 ELSE default_primary(gpaths)

\* taxonomy.py:23-33 and 55-56: the chain of `primary = primary or LABEL`
primary_label(ppaths, gpaths, iou_min, thr) ==
    LET p1 == IF ppaths = {} THEN LABEL_MISSING_PATH
              ELSE IF gpaths # {} /\ ppaths # gpaths THEN LABEL_WRONG_PATH
              ELSE None
        p2 == IF FLess(iou_min, thr)
              THEN (IF p1 # None THEN p1 ELSE LABEL_WRONG_LINE)
              ELSE p1
    IN  IF p2 # None THEN p2 ELSE default_primary(gpaths)

\* taxonomy.py:44  `"/vendor/" in p or "third_party" in p`
vendor_heuristic(p) ==
    Contains(p, <<"/", "vendor", "/">>) \/ Contains(p, <<"third_party">>)

\* taxonomy.py:46  `"/test" in p or "/tests/" in p`
test_heuristic(p) ==
    Contains(p, <<"/", "test">>) \/ Contains(p, <<"/", "test", "s", "/">>)

map_labels(pred, gold, localization, faithfulness, thresholds) ==
    LET ppaths == ToSet(Get(Get(pred, "answer", EmptyDict), "paths", <<>>))
        gpaths == ToSet(Get(gold, "paths", <<>>))
        primary == primary_label(ppaths, gpaths,
                                 Get(localization, "line_iou_min", One),
                                 Get(thresholds, "line_iou_min", Frac(3, 5)))
        reason == faithfulness.faithfulness_reason
        lat == Get(Get(pred, "timing", EmptyDict), "latency_ms", 0)
        tok == Get(pred, "tokens", EmptyDict)
        secondary ==
            (IF localization.symbol_match = 0 THEN <<LABEL_SYMBOL_ABSENT>> ELSE <<>>)
            \o (IF reason = "cite_missing" THEN <<LABEL_CITE_MISSING>>
                ELSE IF reason = "cite_irrelevant" THEN <<LABEL_CITE_IRRELEVANT>>
                ELSE <<>>)
            \o (IF \E p \in ppaths : vendor_heuristic(p)
                THEN <<LABEL_VENDOR_HIT>> ELSE <<>>)
            \o (IF \E p \in ppaths : test_heuristic(p)
                THEN <<LABEL_TEST_INSTEAD_OF_SRC>> ELSE <<>>)
            \o (IF lat # 0 /\ lat > thresholds.p95_latency_ms
                THEN <<LABEL_LATENCY_SLO>> ELSE <<>>)
            \o (IF \/ Get(tok, "in", 0) > thresholds.max_tokens_in
                   \/ Get(tok, "out", 0) > thresholds.max_tokens_out
                   \/ Get(tok, "context", 0) > thresholds.max_context_tokens
                THEN <<LABEL_COST_SLO>> ELSE <<>>)
    IN  [primary |-> primary, secondary |-> secondary]

-----------------------------------------------------------------------------
(* eval/runner/config.py: the defaults of the dataclasses *)

P95LatencyMs == 5000
MaxTokensIn == 20000
MaxTokensOut == 4000
MaxContextTokens == 50000
TimeoutS == 60

\* load_config: an EvalConfig that _validate accepts
MakeConfig(pmr, thr, rsm, fr, r100, ff, ven) ==
    [thresholds |->
        [w1 |-> [path_match_required |-> pmr, line_iou_min |-> thr,
                 require_symbol_match |-> rsm, faithfulness_required |-> fr],
         canary |-> [require_100_percent |-> r100]],
     latency_cost_slo |->
        [p95_latency_ms |-> P95LatencyMs, max_tokens_in |-> MaxTokensIn,
         max_tokens_out |-> MaxTokensOut, max_context_tokens |-> MaxContextTokens],
     run |-> [fail_fast_on_canary |-> ff],
     sut_cli |-> [timeout_s |-> TimeoutS],
     variants |-> [enabled |-> ven]]

\* _validate: line_iou_min in [0,1] and timeout_s > 0
_validate(c) ==
    /\ ~FLess(c.thresholds.w1.line_iou_min, Zero)
    /\ ~FLess(One, c.thresholds.w1.line_iou_min)
    /\ c.sut_cli.timeout_s > 0

-----------------------------------------------------------------------------
(* eval/runner/common.py: the SUT invoker *)

\* the context default left out
_normalize_timing_tokens_no_context(resp, fallback_latency_ms) ==
    LET r1 == SetDefault(resp, "timing", EmptyDict)
        r2 == Put(r1, "timing", SetDefault(r1.timing, "latency_ms", fallback_latency_ms))
        r3 == SetDefault(r2, "tokens", EmptyDict)
        t1 == SetDefault(r3.tokens, "in", 0)
        t2 == SetDefault(t1, "out", 0)
    IN  Put(r3, "tokens", t2)

_normalize_timing_tokens(resp, fallback_latency_ms) ==
    LET r1 == SetDefault(resp, "timing", EmptyDict)
        r2 == Put(r1, "timing", SetDefault(r1.timing, "latency_ms", fallback_latency_ms))
        r3 == SetDefault(r2, "tokens", EmptyDict)
        t1 == SetDefault(r3.tokens, "in", 0)
        t2 == SetDefault(t1, "out", 0)
        t3 == SetDefault(t2, "context", 0)
    IN  Put(r3, "tokens", t3)

\* What one run of the SUT process does: it exceeds the timeout, or it exits
\* having written stdout; json.loads of the stripped stdout either yields
\* the object `value` or raises.  elapsed_ms is the wall-clock time measured
\* around subprocess.run.
call_sut(outcome, elapsed_ms) ==
    IF outcome.kind = "timeout"
    THEN _normalize_timing_tokens([error |-> "timeout"], elapsed_ms)
    ELSE LET resp == IF outcome.stdout = "empty" THEN EmptyDict
                     ELSE IF outcome.stdout = "json" THEN outcome.value
                     ELSE [raw |-> outcome.text]
         IN  _normalize_timing_tokens(resp, elapsed_ms)

\* What json.loads returns besides an object (a dict): null, an array, a
\* string, a number.  Such a value is a record tagged json_type; truthy is
\* its Python truth value (None and [] are false, "x" and 5 are true).
NonObject ==
    [null |-> [json_type |-> "null", truthy |-> FALSE],
     array |-> [json_type |-> "array", truthy |-> FALSE],
     string |-> [json_type |-> "string", truthy |-> TRUE],
     number |-> [json_type |-> "number", truthy |-> TRUE]]

IsDict(v) == "json_type" \notin DOMAIN v

\* `v or {}`
OrEmptyDict(v) == IF IsDict(v) THEN v ELSE IF v.truthy THEN v ELSE EmptyDict

\* common.py:59-64: resp.setdefault, resp["timing"].setdefault and
\* resp["tokens"].setdefault raise AttributeError on a value that is no dict
_normalize_raises(resp) ==
    \/ ~IsDict(resp)
    \/ ~IsDict(Get(resp, "timing", EmptyDict))
    \/ ~IsDict(Get(resp, "tokens", EmptyDict))

\* common.py:76-86: the except clauses cover TimeoutExpired and the failure
\* of json.loads only
call_sut_raises(outcome) ==
    /\ outcome.kind = "exit"
    /\ outcome.stdout = "json"
    /\ _normalize_raises(outcome.value)

-----------------------------------------------------------------------------
(* eval/runner/run_localization.py: per-task evaluation *)

task_passed_unconditional(w1, loc, faith) ==
    IF \/ loc.path_match # 1
       \/ FLess(loc.line_iou_min, w1.line_iou_min)
       \/ loc.symbol_match # 1
       \/ faith.faithful # 1
    THEN 0 ELSE 1

\* run_localization.py:31-39
task_passed(w1, loc, faith) ==
    IF \/ (w1.path_match_required /\ loc.path_match # 1)
       \/ FLess(loc.line_iou_min, w1.line_iou_min)
       \/ (w1.require_symbol_match /\ loc.symbol_match # 1)
       \/ (w1.faithfulness_required /\ faith.faithful # 1)
    THEN 0 ELSE 1

_evaluate_task(task, prediction, golden, c) ==
    LET ans == Get(prediction, "answer", EmptyDict)
        loc == evaluate_localization(ans, golden, Get(task, "inputs", EmptyDict))
        faith == evaluate_faithfulness(ans, Get(prediction, "citations", <<>>))
        labels == map_labels(prediction, golden, loc, faith,
                    [line_iou_min |-> c.thresholds.w1.line_iou_min,
                     p95_latency_ms |-> c.latency_cost_slo.p95_latency_ms,
                     max_tokens_in |-> c.latency_cost_slo.max_tokens_in,
                     max_tokens_out |-> c.latency_cost_slo.max_tokens_out,
                     max_context_tokens |-> c.latency_cost_slo.max_context_tokens])
    IN  [passed |-> task_passed(c.thresholds.w1, loc, faith),
         loc |-> loc, faith |-> faith, labels |-> labels]

\* run_localization.py:68-89: the body of the loop of _run_suite for one
\* task, given the prediction call_sut returned
suite_row(task, gmap, pred, c) ==
    LET tid == task.id
        gold == Get(gmap, tid, EmptyDict)
        evald == _evaluate_task(task, pred, gold, c)
    IN  [task_id |-> tid,
         path_match |-> evald.loc.path_match,
         line_iou_avg |-> evald.loc.line_iou_avg,
         line_iou_min |-> evald.loc.line_iou_min,
         symbol_match |-> evald.loc.symbol_match,
         symbol_presence_rate |-> evald.loc.symbol_presence_rate,
         faithful |-> evald.faith.faithful,
         faithfulness_reason |-> evald.faith.faithfulness_reason,
         label_primary |-> evald.labels.primary,
         label_secondary |-> evald.labels.secondary,
         latency_ms |-> Get(Get(pred, "timing", EmptyDict), "latency_ms", 0),
         tokens_in |-> Get(Get(pred, "tokens", EmptyDict), "in", 0),
         tokens_out |-> Get(Get(pred, "tokens", EmptyDict), "out", 0),
         context_tokens |-> Get(Get(pred, "tokens", EmptyDict), "context", 0),
         passed |-> evald.passed]

\* run_localization.py:15-16 with localization.py:55: `ans.get` on an answer
\* that is true and no dict; taxonomy.py:25: `pred.get("answer", {}).get` on
\* any answer that is no dict, null included
_evaluate_task_raises(prediction) ==
    LET answer == Get(prediction, "answer", EmptyDict)
    IN  \/ ~IsDict(OrEmptyDict(answer))
        \/ ~IsDict(answer)

-----------------------------------------------------------------------------
(* eval/runner/run_localization.py: the canary gate *)

canary_checks_no_symbol(c, r) ==
    (IF c.thresholds.w1.path_match_required /\ r.path_match # 1
     THEN <<"path_match">> ELSE <<>>)
    \o (IF FLess(r.line_iou_min, c.thresholds.w1.line_iou_min)
        THEN <<"line_iou_min">> ELSE <<>>)
    \o (IF c.thresholds.w1.faithfulness_required /\ r.faithful # 1
        THEN <<"faithful">> ELSE <<>>)

\* run_localization.py:119-127: the checks one canary row fails
canary_checks(c, r) ==
    (IF c.thresholds.w1.path_match_required /\ r.path_match # 1
     THEN <<"path_match">> ELSE <<>>)
    \o (IF FLess(r.line_iou_min, c.thresholds.w1.line_iou_min)
        THEN <<"line_iou_min">> ELSE <<>>)
    \o (IF c.thresholds.w1.require_symbol_match /\ r.symbol_match # 1
        THEN <<"symbol_match">> ELSE <<>>)
    \o (IF c.thresholds.w1.faithfulness_required /\ r.faithful # 1
        THEN <<"faithful">> ELSE <<>>)

\* run_localization.py:117-129: one entry "<task_id>: fail(<checks>)" per
\* row with a failed check, in row order
RECURSIVE canary_failures(_, _)
canary_failures(c, rs) ==
    IF rs = <<>> THEN <<>>
    ELSE LET checks == canary_checks(c, Head(rs))
         IN  (IF checks # <<>>
              THEN <<[task_id |-> Head(rs).task_id, checks |-> checks]>>
              ELSE <<>>)
             \o canary_failures(c, Tail(rs))

\* run_localization.py:130-136: what assert_canary_gate returns for the rows
\* of the canary suite
gate_result(c, rs) ==
    LET failures == canary_failures(c, rs)
    IN  [code |-> IF c.thresholds.canary.require_100_percent /\ failures # <<>>
                  THEN 1 ELSE 0,
         failures |-> failures]

-----------------------------------------------------------------------------
(* eval/utils/variants.py: the path shadows *)

\* variants.py:33-37
test_shadow(path) == IF path = <<>> THEN path ELSE <<"test", "s", "/">> \o path

\* variants.py:40-44
vendor_shadow(path) == IF path = <<>> THEN path ELSE <<"vendor", "/">> \o path

\* variants.py:9-17.  Upper and lower case of the words of a symbol.
case_toggle(symbol) ==
    LET lower == <<"gdm", "_display", "_create", "_init", "s">>
        upper == <<"GDM", "_DISPLAY", "_CREATE", "_INIT", "S">>
        to(tok, from, into) ==
            IF \E k \in 1..Len(from) : from[k] = tok
            THEN into[CHOOSE k \in 1..Len(from) : from[k] = tok] ELSE tok
    IN  IF symbol = <<>> THEN symbol
        ELSE IF \E i \in 1..Len(symbol) : symbol[i] \in ToSet(lower)
             THEN [i \in 1..Len(symbol) |-> to(symbol[i], lower, upper)]
             ELSE [i \in 1..Len(symbol) |-> to(symbol[i], upper, lower)]

\* variants.py:20-30
add_reexport_layer(path) ==
    IF path = <<>> \/ "/" \notin ToSet(path) THEN path
    ELSE LET last == CHOOSE i \in 1..Len(path) :
                        path[i] = "/" /\ \A j \in (i + 1)..Len(path) : path[j] # "/"
         IN  SubSeq(path, 1, last) \o <<"index.c">>

\* str.replace on token sequences: every occurrence of the token old
\* becomes the token followed by s
RECURSIVE pluralise_all(_, _)
pluralise_all(symbol, old) ==
    IF symbol = <<>> THEN <<>>
    ELSE (IF Head(symbol) = old THEN <<old, "s">> ELSE <<Head(symbol)>>)
         \o pluralise_all(Tail(symbol), old)

\* variants.py:47-60.  A symbol is the sequence of its words, each with the
\* underscore before it; a plural s is a token of its own.
near_name(symbol) ==
    IF symbol = <<>> THEN symbol
    ELSE LET last == symbol[Len(symbol)]
         IN  IF last \in {"_display", "_create", "_init"}
             THEN pluralise_all(symbol, last)
             ELSE IF last # "s" THEN symbol \o <<"s">> ELSE symbol

-----------------------------------------------------------------------------
(* Bounds and input pools *)

\* line numbers range over 1..MaxLine
MaxLine == 3
\* predicted line ranges per answer
MaxRanges == 1
\* canary tasks of the fixture
NumCanary == 2
\* canary tasks when the gate is taken alone
NumGateCanary == 3
\* base tasks of the fixture; the last one has no golden
NumBase == 2
\* variant tasks of the fixture
NumVariants == 1
\* wall-clock milliseconds of a SUT run that ends in time
ElapsedMs == 120
\* rows of a run whose latencies are aggregated
MaxLatencies == 5
\* the ends of the ranges given to _iou lie in -1..MaxCoord
MaxCoord == 4
\* runs of the variant generator on one source directory
MaxGenerations == 2
\* the largest --limit given to the variant generator
MaxLimit == 8
\* words of a symbol given to near_name
MaxNameLen == 4
\* predicted ranges given to line_iou_scores at once
MaxPredRanges == 3

P_SRC == <<"daemon", "/", "foo.c">>
P_OTHER == <<"daemon", "/", "bar.c">>
\* paths a SUT may predict: the golden path, another source file, the two
\* shadows of the golden path, and paths with vendor, tests, test or
\* third_party inside a segment or as a segment
PathPool ==
    {P_SRC, P_OTHER, vendor_shadow(P_SRC), test_shadow(P_SRC),
     <<"src", "/", "vendor", "/", "foo.c">>,
     <<"src", "/", "test", "s", "/", "foo.c">>,
     <<"src", "/", "test", "ing.c">>,
     <<"third_party", "/", "foo.c">>,
     <<"src", "/", "my_", "third_party", "_utils.c">>}

GOLD_RANGE == <<1, MaxLine>>

SYM == "gdm_display_factory_create_display"

ThresholdPool == {Zero, Frac(3, 5)}

GOOD_ANSWER == [paths |-> <<P_SRC>>, line_ranges |-> <<GOLD_RANGE>>,
                quotes |-> <<{SYM}>>]
GOOD_CITATIONS == <<[path |-> P_SRC, start |-> 1, end |-> MaxLine]>>

\* predictions the SUT may print, all without timing and token fields: the
\* four path sets that stand in every relation to the golden's with every
\* range list under good quotes and citations; every path list with the
\* golden range or none under every quote and citation list; and the good
\* answer with its own usage figures
PredObjectPool ==
    {[answer |-> [paths |-> ps, line_ranges |-> rs, quotes |-> <<{SYM}>>],
      citations |-> GOOD_CITATIONS] :
        ps \in {<<>>, <<P_SRC>>, <<P_OTHER>>, <<P_SRC, P_OTHER>>},
        rs \in SeqsUpTo({r \in (1..MaxLine) \X (1..MaxLine) : r[1] < r[2]}, MaxRanges)}
    \cup
    {[answer |-> [paths |-> ps, line_ranges |-> rs, quotes |-> qs],
      citations |-> cs] :
        ps \in {<<>>, <<P_SRC, P_OTHER>>} \cup {<<p>> : p \in PathPool},
        rs \in {<<>>, <<GOLD_RANGE>>},
        qs \in {<<>>, <<{}>>, <<{SYM}>>},
        cs \in {<<>>, <<[path |-> P_SRC, start |-> 1, end |-> MaxLine]>>,
                <<[path |-> P_OTHER, start |-> 1, end |-> MaxLine]>>,
                <<[start |-> 1, end |-> MaxLine]>>}}
    \cup
    {[answer |-> GOOD_ANSWER, citations |-> GOOD_CITATIONS,
      timing |-> [latency_ms |-> lat],
      tokens |-> [in |-> tin, out |-> 10, context |-> 10]] :
        lat \in {0, P95LatencyMs + 1}, tin \in {10, MaxTokensIn + 1}}

SutOutcome(value) == [kind |-> "exit", stdout |-> "json", value |-> value]
SUT_TIMEOUT == [kind |-> "timeout"]
SUT_EMPTY == [kind |-> "exit", stdout |-> "empty"]
SUT_RAW == [kind |-> "exit", stdout |-> "invalid", text |-> "Traceback"]

\* time measured around the SUT process: a timeout is noticed only after
\* timeout_s seconds
Elapsed(outcome, c) ==
    IF outcome.kind = "timeout" THEN c.sut_cli.timeout_s * 1000 ELSE ElapsedMs

-----------------------------------------------------------------------------
(* The fixture tree: task cards and golden files on disk.  A file is its    *)
(* directory (a sequence of names), its name, its extension and its parsed *)
(* content.                                                                *)

PATHS_SCENARIOS == <<"scenarios">>
PATHS_GOLDENS == <<"goldens">>
PATHS_CANARY == <<"canary">>

CanaryId(i) == "C" \o ToString(i)
BaseId(i) == "T" \o ToString(i)
\* variants.py:166  f"W1-VAR-{generated + 1:03d}"
VariantId(i) == "W1-VAR-00" \o ToString(i)

\* variants.py:77-103, with the table of methods of lines 128-134.  The
\* method is applied to the symbol of the golden, whatever the kind.
generate_variant_task(source_golden, variant_id, kind) ==
    LET source_symbol == Get(source_golden, "symbol", <<>>)
        modified_symbol ==
            CASE kind = "case" -> case_toggle(source_symbol)
              [] kind = "reexport" -> add_reexport_layer(source_symbol)
              [] kind = "test" -> test_shadow(source_symbol)
              [] kind = "vendor" -> vendor_shadow(source_symbol)
              [] kind = "nearname" -> near_name(source_symbol)
    IN  [id |-> variant_id,
         workflow |-> "w1_localization",
         inputs |-> IF modified_symbol # <<>>
                    THEN [symbol |-> modified_symbol] ELSE EmptyDict,
         constraints |->
            [must_cite |-> TRUE,
             exclude_dirs |-> CASE kind = "test" -> <<"vendor/">>
                                [] kind = "vendor" -> <<"tests/">>
                                [] OTHER -> <<"vendor/", "tests/">>],
         acceptance_criteria |->
            [paths |-> Get(source_golden, "paths", <<>>),
             line_ranges |-> Get(source_golden, "line_ranges", <<>>),
             checklist |-> Get(source_golden, "checklist", <<>>)],
         tags |-> <<"variant", kind, "from:" \o Get(source_golden, "task_id", "")>>]

\* variants.py:106-120
generate_variant_golden(source_golden, variant_id, kind) ==
    [task_id |-> variant_id,
     paths |-> Get(source_golden, "paths", <<>>),
     line_ranges |-> Get(source_golden, "line_ranges", <<>>),
     quotes |-> Get(source_golden, "quotes", <<>>),
     provenance |->
        [from_task |-> Get(source_golden, "task_id", ""),
         method |-> kind,
         repo |-> Get(Get(source_golden, "provenance", EmptyDict), "repo", ""),
         commit |-> Get(Get(source_golden, "provenance", EmptyDict), "commit", "")],
     notes |-> "Variant derived; truth unchanged"]

\* variants.py:123-182.  The source directory holds the golden file base
\* and, once written, variants/variants.jsonl, vfile; load_goldens (lines
\* 63-74) walks the directory top down, so it reads the records of base
\* and then those of vfile.  tfiles are the task files of
\* <out_dir>/variants by id.  The loop makes one variant per (golden, kind)
\* pair, goldens outermost, kinds without method skipped, until limit are
\* made; the task files are written over by id and vfile is written anew.
generate_variants(base, vfile, tfiles, limit, kinds) ==
    LET loaded_goldens == base \o vfile
        known == SelectSeq(kinds, LAMBDA k :
                     k \in {"case", "reexport", "test", "vendor", "nearname"})
        generated == IMin(limit, Len(loaded_goldens) * Len(known))
        source(i) == loaded_goldens[((i - 1) \div Len(known)) + 1]
        kind(i) == known[((i - 1) % Len(known)) + 1]
        variant_tasks == [i \in 1..generated |->
                             generate_variant_task(source(i), VariantId(i), kind(i))]
        variant_goldens == [i \in 1..generated |->
                               generate_variant_golden(source(i), VariantId(i), kind(i))]
    IN  IF loaded_goldens = <<>>
        THEN [loaded |-> <<>>, sources |-> <<>>, variant_tasks |-> <<>>,
              variant_goldens |-> <<>>, vfile |-> vfile, tfiles |-> tfiles]
        ELSE [loaded |-> loaded_goldens,
              sources |-> [i \in 1..generated |-> source(i)],
              variant_tasks |-> variant_tasks,
              variant_goldens |-> variant_goldens,
              vfile |-> variant_goldens,
              tfiles |-> [id \in DOMAIN tfiles \cup {VariantId(i) : i \in 1..generated} |->
                            IF \E i \in 1..generated : VariantId(i) = id
                            THEN variant_tasks[CHOOSE i \in 1..generated : VariantId(i) = id]
                            ELSE tfiles[id]]]

\* variants.py:146-147: generate_variants writes to <out_dir>/variants and
\* <source_dir>/variants, for source_dir = goldens/w1_localization and
\* out_dir = scenarios/w1_localization

FixtureGolden(tid) ==
    [task_id |-> tid, paths |-> <<P_SRC>>, line_ranges |-> <<GOLD_RANGE>>]

FixtureTaskFiles(nc, nb, nv) ==
    {[dir |-> PATHS_CANARY \o <<"w1_localization">>, name |-> CanaryId(i), ext |-> ".json",
      content |-> [id |-> CanaryId(i), inputs |-> [symbol |-> SYM], tags |-> <<"canary">>]] :
        i \in 1..nc}
    \cup
    {[dir |-> PATHS_SCENARIOS \o <<"w1_localization">>, name |-> BaseId(i), ext |-> ".json",
      content |-> [id |-> BaseId(i), inputs |-> [symbol |-> SYM], tags |-> <<>>]] :
        i \in 1..nb}
    \cup
    {[dir |-> PATHS_SCENARIOS \o <<"w1_localization", "variants">>,
      name |-> VariantId(i), ext |-> ".json",
      content |-> [id |-> VariantId(i), inputs |-> EmptyDict,
                   tags |-> <<"variant", "case", "from:T1">>]] :
        i \in 1..nv}

\* every canary and base task has a golden, except the last base task
FixtureGoldenFiles(nc, nb, nv) ==
    {[dir |-> PATHS_GOLDENS \o <<"w1_localization">>, name |-> "goldens", ext |-> ".jsonl",
      content |-> [i \in 1..nc |-> FixtureGolden(CanaryId(i))]
                  \o [i \in 1..(nb - 1) |-> FixtureGolden(BaseId(i))]],
     [dir |-> PATHS_GOLDENS \o <<"w1_localization", "variants">>,
      name |-> "variants", ext |-> ".jsonl",
      content |-> [i \in 1..nv |-> FixtureGolden(VariantId(i))]]}

\* the tree the runner works on
FixtureFS == FixtureTaskFiles(NumCanary, NumBase, NumVariants)
                \cup FixtureGoldenFiles(NumCanary, NumBase, NumVariants)

\* the tree of the canary gate taken alone
GateFS == FixtureTaskFiles(NumGateCanary, 0, 0) \cup FixtureGoldenFiles(NumGateCanary, 0, 0)

\* the names of the tree in the order of their strings (upper case first)
NameOrder ==
    [i \in 1..IMax(NumCanary, NumGateCanary) |-> CanaryId(i)]
    \o [i \in 1..NumBase |-> BaseId(i)]
    \o [i \in 1..NumVariants |-> VariantId(i)]
    \o <<"canary", "goldens", "scenarios", "variants", "w1_localization">>

NameRank(n) == CHOOSE i \in 1..Len(NameOrder) : NameOrder[i] = n

FullPath(f) == f.dir \o <<f.name>>

\* order of the joined path strings: the first differing name decides
RECURSIVE PathLess(_, _)
PathLess(p, q) ==
    IF p = <<>> THEN q # <<>>
    ELSE IF q = <<>> THEN FALSE
    ELSE IF Head(p) = Head(q) THEN PathLess(Tail(p), Tail(q))
    ELSE NameRank(Head(p)) < NameRank(Head(q))

RECURSIVE SortedFiles(_)
SortedFiles(F) ==
    IF F = {} THEN <<>>
    ELSE LET m == CHOOSE f \in F :
                    \A g \in F \ {f} : PathLess(FullPath(f), FullPath(g))
         IN  <<m>> \o SortedFiles(F \ {m})

-----------------------------------------------------------------------------
(* eval/runner/common.py: the loaders *)

\* common.py:22-28: os.walk descends into every sub-directory
_glob_files(fs, directory, exts) ==
    SortedFiles({f \in fs : /\ Len(directory) <= Len(f.dir)
                            /\ SubSeq(f.dir, 1, Len(directory)) = directory
                            /\ f.ext \in exts})

load_tasks_for_workflow(fs, base_dir) ==
    LET ps == _glob_files(fs, base_dir, {".json", ".yaml", ".yml"})
    IN  [i \in 1..Len(ps) |-> ps[i].content]

RECURSIVE golden_items(_)
golden_items(files) ==
    IF files = <<>> THEN <<>>
    ELSE Head(files).content \o golden_items(Tail(files))

\* goldens[tid] = item, in order: a later item of the same id wins
RECURSIVE golden_update(_, _)
golden_update(g, items) ==
    IF items = <<>> THEN g
    ELSE golden_update(
            IF Get(Head(items), "task_id", "") = "" THEN g
            ELSE Put(g, Head(items).task_id, Head(items)),
            Tail(items))

load_goldens_jsonl(fs, base_dir) ==
    golden_update(EmptyDict, golden_items(_glob_files(fs, base_dir, {".jsonl"})))

\* run_localization.py:59-61
RECURSIVE suite_tasks(_, _)
suite_tasks(fs, tasks_dirs) ==
    IF tasks_dirs = <<>> THEN <<>>
    ELSE load_tasks_for_workflow(fs, Head(tasks_dirs)) \o suite_tasks(fs, Tail(tasks_dirs))

\* run_localization.py:63-65: dict.update, a later directory wins
RECURSIVE suite_goldens(_, _, _)
suite_goldens(fs, goldens_dirs, g) ==
    IF goldens_dirs = <<>> THEN g
    ELSE LET h == load_goldens_jsonl(fs, Head(goldens_dirs))
         IN  suite_goldens(fs, Tail(goldens_dirs),
                           [k \in (DOMAIN g) \cup (DOMAIN h) |->
                                IF k \in DOMAIN h THEN h[k] ELSE g[k]])

-----------------------------------------------------------------------------
(* eval/runner/run_localization.py: main() *)

\* the default thresholds of config.py and a lenient profile, under every
\* combination of the gate, fail-fast and variant switches
RunConfigPool ==
    {MakeConfig(w[1], w[2], w[3], w[4], r100, ff, ven) :
        w \in {<<TRUE, Frac(3, 5), TRUE, TRUE>>, <<FALSE, Zero, FALSE, FALSE>>},
        r100 \in BOOLEAN, ff \in BOOLEAN, ven \in BOOLEAN}

RunOutcomePool ==
    {SUT_TIMEOUT, SutOutcome([answer |-> GOOD_ANSWER, citations |-> GOOD_CITATIONS])}

\* common.py:94-95: uuid4().hex[:8], a random draw
RunIdPool == {"0a1b2c3d", "4e5f6a7b"}

NoGate == [done |-> FALSE, code |-> 0, failures |-> <<>>]
NoExit == -1
\* neither registry/runs.parquet nor registry/runs.csv exists
NoRegistry == [parquet |-> <<>>, csv |-> [header |-> <<>>, lines |-> <<>>]]

InitRun ==
    /\ pc = "start"
    /\ args \in [dry_run : BOOLEAN, suite : {"canary", "w1", "all"},
                 include_variants : BOOLEAN]
    /\ cfg \in {c \in RunConfigPool : _validate(c)}
    /\ tasks = <<>>
    /\ goldens = EmptyDict
    /\ rows = <<>>
    /\ sutLog = <<>>
    /\ gate = NoGate
    /\ exit_code = NoExit
    /\ run_id = "none"
    /\ reports = {}
    /\ registry = NoRegistry
    /\ stdout = [printed |-> FALSE]
    /\ completed = <<>>
    /\ loaded = [ok |-> FALSE]
    /\ ev = [op |-> "none"]

\* run_localization.py:146-153
DryRun ==
    /\ pc = "start"
    /\ args.dry_run
    /\ pc' = "returned"
    /\ UNCHANGED <<args, cfg, tasks, goldens, rows, sutLog, gate, exit_code,
                   run_id, reports, registry, stdout, completed, loaded, ev>>

\* run_localization.py:115 with 50-66: assert_canary_gate starts the canary
\* suite (for --suite canary at line 156, otherwise at line 159)
GateLoad ==
    /\ pc = "start"
    /\ ~args.dry_run
    /\ tasks' = suite_tasks(FixtureFS, <<PATHS_CANARY \o <<"w1_localization">>>>)
    /\ goldens' = suite_goldens(FixtureFS, <<PATHS_GOLDENS \o <<"w1_localization">>>>, EmptyDict)
    /\ rows' = <<>>
    /\ pc' = "canary"
    /\ UNCHANGED <<args, cfg, sutLog, gate, exit_code, run_id, reports, registry, stdout, completed, loaded, ev>>

\* a timed-out task gets no row and is invoked again
SutStep_retry ==
    /\ pc \in {"canary", "full"}
    /\ Len(rows) < Len(tasks)
    /\ \E outcome \in RunOutcomePool :
         LET task == tasks[Len(rows) + 1]
             pred == call_sut(outcome, Elapsed(outcome, cfg))
         IN  /\ sutLog' = Append(sutLog, [phase |-> pc, task_id |-> task.id, pred |-> pred])
             /\ rows' = IF outcome.kind = "timeout" THEN rows
                        ELSE Append(rows, suite_row(task, goldens, pred, cfg))
    /\ UNCHANGED <<pc, args, cfg, tasks, goldens, gate, exit_code, run_id,
                   reports, registry, stdout, completed, loaded, ev>>

\* run_localization.py:67-89: one iteration of the loop of _run_suite
SutStep ==
    /\ pc \in {"canary", "full"}
    /\ Len(rows) < Len(tasks)
    /\ \E outcome \in RunOutcomePool :
         LET task == tasks[Len(rows) + 1]
             pred == call_sut(outcome, Elapsed(outcome, cfg))
         IN  /\ sutLog' = Append(sutLog, [phase |-> pc, task_id |-> task.id, pred |-> pred])
             /\ rows' = Append(rows, suite_row(task, goldens, pred, cfg))
    /\ UNCHANGED <<pc, args, cfg, tasks, goldens, gate, exit_code, run_id,
                   reports, registry, stdout, completed, loaded, ev>>

\* run_localization.py:116-136: the canary suite is over, the gate decides
GateReturn ==
    /\ pc = "canary"
    /\ Len(rows) = Len(tasks)
    /\ gate' = [done |-> TRUE] @@ gate_result(cfg, rows)
    /\ pc' = "gate_returned"
    /\ UNCHANGED <<args, cfg, tasks, goldens, rows, sutLog, exit_code, run_id,
                   reports, registry, stdout, completed, loaded, ev>>

\* run_localization.py:155-157
CanaryOnlyExit ==
    /\ pc = "gate_returned"
    /\ args.suite = "canary"
    /\ exit_code' = gate.code
    /\ pc' = "exited"
    /\ UNCHANGED <<args, cfg, tasks, goldens, rows, sutLog, gate, run_id,
                   reports, registry, stdout, completed, loaded, ev>>

fail_fast_never(gate_code, c) == FALSE

\* run_localization.py:160
fail_fast(gate_code, c) == gate_code # 0 /\ c.run.fail_fast_on_canary

\* run_localization.py:160-161
FailFastExit ==
    /\ pc = "gate_returned"
    /\ args.suite # "canary"
    /\ fail_fast(gate.code, cfg)
    /\ exit_code' = gate.code
    /\ pc' = "exited"
    /\ UNCHANGED <<args, cfg, tasks, goldens, rows, sutLog, gate, run_id,
                   reports, registry, stdout, completed, loaded, ev>>

\* run_localization.py:164-170
suite_dirs(a, c) ==
    LET scenarios_dir == PATHS_SCENARIOS \o <<"w1_localization">>
        goldens_dir == PATHS_GOLDENS \o <<"w1_localization">>
    IN  IF a.include_variants /\ c.variants.enabled
        THEN [scenarios |-> <<scenarios_dir, scenarios_dir \o <<"variants">>>>,
              goldens |-> <<goldens_dir, goldens_dir \o <<"variants">>>>]
        ELSE [scenarios |-> <<scenarios_dir>>, goldens |-> <<goldens_dir>>]

\* run_localization.py:163-172 with 50-66: the full suite starts
FullLoad ==
    /\ pc = "gate_returned"
    /\ args.suite # "canary"
    /\ ~fail_fast(gate.code, cfg)
    /\ run_id' \in RunIdPool
    /\ LET dirs == suite_dirs(args, cfg)
       IN  /\ tasks' = suite_tasks(FixtureFS, dirs.scenarios)
           /\ goldens' = suite_goldens(FixtureFS, dirs.goldens, EmptyDict)
    /\ rows' = <<>>
    /\ pc' = "full"
    /\ UNCHANGED <<args, cfg, sutLog, gate, exit_code, reports, registry, stdout, completed, loaded, ev>>

canary_pass_always(gate_code) == TRUE

\* run_localization.py:201
canary_pass(gate_code) == gate_code = 0

RECURSIVE ISum(_)
ISum(s) == IF s = <<>> THEN 0 ELSE Head(s) + ISum(Tail(s))

\* sorted(latencies)
SortAsc(s) == SortSeq(s, LAMBDA a, b : a < b)

\* statistics.median: the middle element, or the mean of the two middle ones
median(s) ==
    LET t == SortAsc(s)
        n == Len(s)
    IN  IF n % 2 = 1 THEN Frac(t[(n + 1) \div 2], 1)
        ELSE Frac(t[n \div 2] + t[n \div 2 + 1], 2)

p95_index_nearest_rank(n) == (19 * n + 19) \div 20 - 1

\* run_localization.py:175 and 100: int(0.95 * (n - 1)); the float product
\* truncates to floor(19 * (n - 1) / 20) for every n up to 2,000,000
p95_index(n) == (19 * (n - 1)) \div 20

\* run_localization.py:175 and 100, 0-based index turned 1-based
p95_latency(latencies) ==
    IF latencies = <<>> THEN 0
    ELSE SortAsc(latencies)[p95_index(Len(latencies)) + 1]

\* run_localization.py:173: the latencies of the rows (those the SUT reports
\* are numbers here, so the isinstance filter keeps them all)
row_latencies(rs) == [i \in 1..Len(rs) |-> rs[i].latency_ms]

\* run_localization.py:184-187: the first tag of the known set
RECURSIVE first_known_kind(_)
first_known_kind(tags) ==
    IF tags = <<>> THEN "normal"
    ELSE IF Head(tags) \in {"case", "reexport", "test", "vendor", "nearname"} THEN Head(tags)
    ELSE first_known_kind(Tail(tags))

\* run_localization.py:182-187: row.get("tags") split at the commas; a row
\* without the key has no tags
row_kind(row) == first_known_kind(Get(row, "tags", <<>>))

\* run_localization.py:180-188 and 202
accuracy_by_variant_kind(rs) ==
    LET kinds == {row_kind(rs[i]) : i \in 1..Len(rs)}
    IN  [k \in kinds |->
            Frac(Cardinality({i \in 1..Len(rs) : row_kind(rs[i]) = k /\ rs[i].passed # 0}),
                 IMax(Cardinality({i \in 1..Len(rs) : row_kind(rs[i]) = k}), 1))]

\* run_localization.py:173-203
run_summary(rid, rs, gate_code) ==
    LET passed == {i \in 1..Len(rs) : rs[i].passed # 0}
        faithful == {i \in 1..Len(rs) : rs[i].faithful = 1}
        n == IMax(Len(rs), 1)
        latencies == row_latencies(rs)
        avg_tokens_in == Frac(ISum([i \in 1..Len(rs) |-> rs[i].tokens_in]), n)
        avg_tokens_out == Frac(ISum([i \in 1..Len(rs) |-> rs[i].tokens_out]), n)
    IN  [run_id |-> rid,
         num_tasks |-> Len(rs),
         accuracy_localization |-> Frac(Cardinality(passed), n),
         faithfulness_rate |-> Frac(Cardinality(faithful), n),
         line_iou_avg |-> FDivInt(FSum([i \in 1..Len(rs) |-> rs[i].line_iou_avg]), n),
         p50_latency_ms |-> IF latencies = <<>> THEN Zero ELSE median(latencies),
         p95_latency_ms |-> p95_latency(latencies),
         avg_tokens_in |-> avg_tokens_in,
         avg_tokens_out |-> avg_tokens_out,
         avg_tokens_total |-> FAdd(avg_tokens_in, avg_tokens_out),
         canary_pass |-> canary_pass(gate_code),
         accuracy_by_variant_kind |-> accuracy_by_variant_kind(rs)]

\* f"{x:.2f}" and f"{x:.1f}": x in units of 1/scale, rounded to the nearest,
\* a tie to the even one (a tie is exact only for a power-of-two denominator)
FormatFixed(x, scale) ==
    LET num == x[1] * scale
        q == num \div x[2]
        r == num % x[2]
    IN  IF 2 * r > x[2] THEN q + 1
        ELSE IF 2 * r < x[2] THEN q
        ELSE IF q % 2 = 0 THEN q ELSE q + 1

\* Counter(...).most_common(3): the labels by falling count, a tie in the
\* order of first occurrence
RECURSIVE most_common(_, _)
most_common(labels, k) ==
    IF k = 0 \/ labels = <<>> THEN <<>>
    ELSE LET count(l) == Cardinality({i \in 1..Len(labels) : labels[i] = l})
             first(l) == CHOOSE i \in 1..Len(labels) :
                            labels[i] = l /\ \A j \in 1..(i - 1) : labels[j] # l
             top == CHOOSE l \in ToSet(labels) :
                        \A m \in ToSet(labels) \ {l} :
                            \/ count(l) > count(m)
                            \/ count(l) = count(m) /\ first(l) < first(m)
         IN  <<[label |-> top, count |-> count(top)]>>
             \o most_common(SelectSeq(labels, LAMBDA x : x # top), k - 1)

\* run_localization.py:93-110: what _print_cli_summary prints; the figures
\* are kept as computed and as formatted
_print_cli_summary(rs) ==
    IF rs = <<>> THEN [printed |-> TRUE, no_tasks |-> TRUE]
    ELSE LET n == Len(rs)
             accuracy == Frac(Cardinality({i \in 1..n :
                                 rs[i].path_match = 1 /\ rs[i].faithful = 1}), n)
             faith_rate == Frac(Cardinality({i \in 1..n : rs[i].faithful = 1}), n)
             avg_iou == FDivInt(FSum([i \in 1..n |-> rs[i].line_iou_avg]), n)
             avg_tokens == Frac(ISum([i \in 1..n |-> rs[i].tokens_in + rs[i].tokens_out]), n)
             failed == SelectSeq(rs, LAMBDA r : r.passed = 0)
         IN  [printed |-> TRUE, no_tasks |-> FALSE,
              accuracy |-> accuracy,
              accuracy_text |-> FormatFixed(accuracy, 100),
              faithfulness_rate_text |-> FormatFixed(faith_rate, 100),
              avg_iou_text |-> FormatFixed(avg_iou, 100),
              p95 |-> p95_latency(row_latencies(rs)),
              avg_tokens_text |-> FormatFixed(avg_tokens, 10),
              top |-> most_common([i \in 1..Len(failed) |-> failed[i].label_primary], 3)]

\* sorted(run_row.keys()): the keys of the W1 summary and of the W2 registry
\* row in the order of their strings
SortedKeys(d) ==
    SelectSeq(
        <<"accuracy_by_variant_kind", "accuracy_localization", "avg_tokens_in",
          "avg_tokens_out", "avg_tokens_total", "canary_pass", "faithfulness_rate",
          "line_iou_avg", "num_tasks", "p50_latency_ms", "p95_latency_ms", "run_id",
          "w2_anchor_coverage_mean", "w2_anchor_faithful_rate_mean", "w2_avg_tokens",
          "w2_p95_latency_ms", "w2_pass_overall">>,
        LAMBDA k : k \in DOMAIN d)

\* common.py:139-149: csv.DictWriter with fieldnames sorted(run_row.keys());
\* the header is written only when the file is created.  A line of the file
\* is its cells (values); fieldnames records what the writer took them to be.
csv_append(file, run_row) ==
    LET fieldnames == SortedKeys(run_row)
    IN  [header |-> IF file.header = <<>> THEN fieldnames ELSE file.header,
         lines |-> Append(file.lines,
                          [fieldnames |-> fieldnames,
                           values |-> [i \in 1..Len(fieldnames) |-> run_row[fieldnames[i]]]])]

\* common.py:126-149: the row goes to runs.parquet (read, concatenated and
\* written back) when pandas and pyarrow work, to runs.csv otherwise
append_registry(reg, parquet_ok, run_row) ==
    IF parquet_ok
    THEN [reg EXCEPT !.parquet = Append(@, run_row)]
    ELSE [reg EXCEPT !.csv = csv_append(@, run_row)]

\* run_localization.py:206-217 with common.py:98-104: the files of the run
\* directory reports/<run_id> are written, replacing those of an earlier
\* localization run into the same directory
write_w1_reports(reps, rid, rs, summary) ==
    {r \in reps : ~(r.run_id = rid /\ r.workflow = "w1")} \cup
    {[run_id |-> rid, workflow |-> "w1",
      files |-> {"w1_by_task.csv", "summary.json", "by_task.json"},
      summary |-> summary, by_task |-> rs]}

\* run_localization.py:173-219: aggregate, write the reports, append the
\* registry row, print the summary
Persist ==
    /\ pc = "full"
    /\ Len(rows) = Len(tasks)
    /\ LET summary == run_summary(run_id, rows, gate.code)
       IN  /\ reports' = write_w1_reports(reports, run_id, rows, summary)
           /\ \E parquet_ok \in BOOLEAN :
                /\ registry' = append_registry(registry, parquet_ok, summary)
                /\ completed' = Append(completed,
                        [run_id |-> run_id, workflow |-> "w1",
                         parquet |-> parquet_ok, row |-> summary])
    /\ stdout' = _print_cli_summary(rows)
    /\ pc' = "done"
    /\ UNCHANGED <<args, cfg, tasks, goldens, rows, sutLog, gate, exit_code,
                   run_id, loaded, ev>>

Next ==
    \/ DryRun
    \/ GateLoad
    \/ SutStep
    \/ GateReturn
    \/ CanaryOnlyExit
    \/ FailFastExit
    \/ FullLoad
    \/ Persist

Spec == InitRun /\ [][Next]_vars

-----------------------------------------------------------------------------
(* The registry over several runs.  A run of run_localization.main or of    *)
(* run_change_impact.main is one step from start to exit; the Run           *)
(* Comparator (diff_runs.py) loads the registry between runs.  The SUT of a *)
(* run gives the same outcome on every task.                                *)

\* runs that append a registry row
MaxRuns == 2

\* run_change_impact.py:141-156; _mean is 0.0 without rows
w2_summary(rid, rs) ==
    LET n == IMax(Len(rs), 1)
        mean(vals) == IF rs = <<>> THEN Zero ELSE FDivInt(FSum(vals), n)
        imean(vals) == IF rs = <<>> THEN Zero ELSE Frac(ISum(vals), n)
    IN  [run_id |-> rid,
         w2 |-> [anchor_coverage_mean |->
                    mean([i \in 1..Len(rs) |-> rs[i].anchor_coverage]),
                 anchor_faithful_rate_mean |->
                    mean([i \in 1..Len(rs) |-> rs[i].anchor_faithful_rate]),
                 pass_det_core |->
                    Frac(Cardinality({i \in 1..Len(rs) :
                            /\ FEq(rs[i].anchor_faithful_rate, One)
                            /\ rs[i].forbidden_hit = 0}), n),
                 pass_overall |->
                    Frac(Cardinality({i \in 1..Len(rs) : rs[i].faithful_overall = 1}), n),
                 p95_latency_ms |-> p95_latency(row_latencies(rs)),
                 avg_tokens |->
                    FAdd(imean([i \in 1..Len(rs) |-> rs[i].tokens_in]),
                         imean([i \in 1..Len(rs) |-> rs[i].tokens_out]))]]

\* run_change_impact.py:164-171
w2_registry_row(summary) ==
    [run_id |-> summary.run_id,
     w2_anchor_coverage_mean |-> summary.w2.anchor_coverage_mean,
     w2_anchor_faithful_rate_mean |-> summary.w2.anchor_faithful_rate_mean,
     w2_pass_overall |-> summary.w2.pass_overall,
     w2_p95_latency_ms |-> summary.w2.p95_latency_ms,
     w2_avg_tokens |-> summary.w2.avg_tokens]

\* run_change_impact.py:129-139 and 159-161: the files written into
\* reports/<run_id>
write_w2_reports(reps, rid, rs, summary) ==
    {r \in reps : ~(r.run_id = rid /\ r.workflow = "w2")} \cup
    {[run_id |-> rid, workflow |-> "w2",
      files |-> {"w2_by_task.csv", "w2_summary.json"},
      summary |-> summary, by_task |-> rs]}

\* pd.read_csv: the first line names the columns and the cells of a line
\* fall under them by position; a line with more cells than columns is a
\* ParserError, a cell that is missing is NaN (no entry)
read_csv(file) ==
    IF \E i \in 1..Len(file.lines) : Len(file.lines[i].values) > Len(file.header)
    THEN [ok |-> FALSE]
    ELSE [ok |-> TRUE,
          rows |-> [i \in 1..Len(file.lines) |->
                      [k \in {file.header[j] : j \in 1..Len(file.lines[i].values)} |->
                          file.lines[i].values[
                              CHOOSE j \in 1..Len(file.header) : file.header[j] = k]]]]

\* diff_runs.py:9-26: runs.parquet when pandas and pyarrow import and the
\* file exists; else runs.csv when pandas imports and the file exists; else
\* None.  An exception of either read is swallowed.
_load_registry_df(reg, env) ==
    IF env.pandas /\ env.pyarrow /\ reg.parquet # <<>>
    THEN [ok |-> TRUE, rows |-> reg.parquet]
    ELSE IF env.pandas /\ reg.csv.header # <<>>
    THEN read_csv(reg.csv)
    ELSE [ok |-> FALSE]

InitRuns ==
    /\ pc = "idle"
    /\ args = [dry_run |-> FALSE, suite |-> "all", include_variants |-> FALSE]
    /\ cfg \in {MakeConfig(TRUE, Frac(3, 5), TRUE, TRUE, TRUE, ff, TRUE) : ff \in BOOLEAN}
    /\ tasks = <<>>
    /\ goldens = EmptyDict
    /\ rows = <<>>
    /\ sutLog = <<>>
    /\ gate = NoGate
    /\ exit_code = NoExit
    /\ run_id = "none"
    /\ reports = {}
    /\ registry = NoRegistry
    /\ stdout = [printed |-> FALSE]
    /\ completed = <<>>
    /\ loaded = [ok |-> FALSE]
    /\ ev = [op |-> "none"]

\* run_localization.py:67-89: the loop of _run_suite over a task list, for
\* a SUT that behaves the same way on every task
suite_rows(ts, gm, outcome, c) ==
    [i \in 1..Len(ts) |-> suite_row(ts[i], gm, call_sut(outcome, Elapsed(outcome, c)), c)]

\* the SUT invocations of that loop
suite_calls(phase, ts, outcome, c) ==
    [i \in 1..Len(ts) |->
        [phase |-> phase, task_id |-> ts[i].id, pred |-> call_sut(outcome, Elapsed(outcome, c))]]

\* run_localization.py:159-219: what main() does once the canary suite and
\* the full suite are known: the fail-fast exit, or the reports, the
\* registry row and the printed summary
main_after_gate(g, crows, frows, ccalls, fcalls, rid, parquet_ok) ==
    IF fail_fast(g.code, cfg)
    THEN /\ exit_code' = g.code
         /\ rows' = crows
         /\ sutLog' = ccalls
         /\ run_id' = "none"
         /\ stdout' = [printed |-> FALSE]
         /\ UNCHANGED <<reports, registry, completed>>
    ELSE /\ exit_code' = NoExit
         /\ rows' = frows
         /\ sutLog' = ccalls \o fcalls
         /\ run_id' = rid
         /\ stdout' = _print_cli_summary(frows)
         /\ LET summary == run_summary(rid, frows, g.code)
            IN  /\ reports' = write_w1_reports(reports, rid, frows, summary)
                /\ registry' = append_registry(registry, parquet_ok, summary)
                /\ completed' = Append(completed,
                        [run_id |-> rid, workflow |-> "w1",
                         parquet |-> parquet_ok, row |-> summary])

\* run_localization.py:139-219 from start to exit: the canary gate, the
\* fail-fast exit or the full suite, the reports, the registry row, the
\* printed summary
LocalizationRun ==
    /\ pc = "idle"
    /\ Len(completed) < MaxRuns
    /\ \E outcome \in RunOutcomePool, rid \in RunIdPool, parquet_ok \in BOOLEAN :
         LET ctasks == suite_tasks(FixtureFS, <<PATHS_CANARY \o <<"w1_localization">>>>)
             cgold == suite_goldens(FixtureFS, <<PATHS_GOLDENS \o <<"w1_localization">>>>, EmptyDict)
             crows == suite_rows(ctasks, cgold, outcome, cfg)
             g == [done |-> TRUE] @@ gate_result(cfg, crows)
             dirs == suite_dirs(args, cfg)
             ftasks == suite_tasks(FixtureFS, dirs.scenarios)
             fgold == suite_goldens(FixtureFS, dirs.goldens, EmptyDict)
         IN  /\ gate' = g
             /\ tasks' = IF fail_fast(g.code, cfg) THEN ctasks ELSE ftasks
             /\ goldens' = IF fail_fast(g.code, cfg) THEN cgold ELSE fgold
             /\ main_after_gate(g, crows, suite_rows(ftasks, fgold, outcome, cfg),
                                suite_calls("canary", ctasks, outcome, cfg),
                                suite_calls("full", ftasks, outcome, cfg), rid, parquet_ok)
    /\ UNCHANGED <<pc, args, cfg, loaded, ev>>

\* run_change_impact.py:80-171 from start to exit, on a tree that holds no
\* change-impact task: the loop over the tasks has nothing to do
ChangeImpactRun ==
    /\ pc = "idle"
    /\ Len(completed) < MaxRuns
    /\ load_tasks_for_workflow(FixtureFS, PATHS_SCENARIOS \o <<"w2_change_impact">>) = <<>>
    /\ \E rid \in RunIdPool, parquet_ok \in BOOLEAN :
         LET summary == w2_summary(rid, <<>>)
         IN  /\ reports' = write_w2_reports(reports, rid, <<>>, summary)
             /\ registry' = append_registry(registry, parquet_ok, w2_registry_row(summary))
             /\ completed' = Append(completed,
                     [run_id |-> rid, workflow |-> "w2",
                      parquet |-> parquet_ok, row |-> w2_registry_row(summary)])
    /\ UNCHANGED <<pc, args, cfg, tasks, goldens, rows, sutLog, gate, exit_code,
                   run_id, stdout, loaded, ev>>

\* diff_runs.py:87: the Run Comparator loads the registry; `at` records how
\* many runs had appended their row by then; env is the set of modules the
\* Run Comparator can import
CompareLoad ==
    /\ pc = "idle"
    /\ \E env \in {[pandas |-> TRUE, pyarrow |-> TRUE], [pandas |-> TRUE, pyarrow |-> FALSE],
                   [pandas |-> FALSE, pyarrow |-> FALSE]} :
         loaded' = _load_registry_df(registry, env) @@ [env |-> env, at |-> Len(completed)]
    /\ UNCHANGED <<pc, args, cfg, tasks, goldens, rows, sutLog, gate, exit_code,
                   run_id, reports, registry, stdout, completed, ev>>

NextRuns ==
    \/ LocalizationRun
    \/ ChangeImpactRun
    \/ CompareLoad

SpecRuns == InitRuns /\ [][NextRuns]_vars

-----------------------------------------------------------------------------
(* The evaluation functions taken alone: Init draws the inputs, the actions *)
(* apply _run_suite's loop body and assert_canary_gate to them.            *)

PureTask == BaseId(1)

SuiteStepInputs ==
    [op : {"suite_step"}, done : {FALSE},
     task : {[id |-> PureTask, inputs |-> i, tags |-> <<>>] :
                i \in {EmptyDict, [symbol |-> SYM]}},
     gmap : {EmptyDict} \cup
            {(PureTask :> [task_id |-> PureTask, paths |-> ps, line_ranges |-> rs]) :
                <<ps, rs>> \in {<<<<P_SRC>>, <<GOLD_RANGE>>>>,
                                <<<<P_SRC, P_OTHER>>, <<GOLD_RANGE>>>>,
                                <<<<P_SRC>>, <<>>>>,
                                <<<<>>, <<GOLD_RANGE>>>>}},
     outcome : {SUT_TIMEOUT, SUT_EMPTY, SUT_RAW} \cup {SutOutcome(v) : v \in PredObjectPool},
     c : {c \in {MakeConfig(pmr, thr, rsm, fr, TRUE, TRUE, TRUE) :
                    pmr \in BOOLEAN, thr \in ThresholdPool, rsm \in BOOLEAN,
                    fr \in BOOLEAN} : _validate(c)}]

GateOutcomePool ==
    RunOutcomePool \cup
    {SutOutcome([answer |-> [paths |-> <<P_SRC>>, line_ranges |-> <<<<1, 2>>>>,
                             quotes |-> <<{SYM}>>],
                 citations |-> GOOD_CITATIONS]),
     SutOutcome([answer |-> [paths |-> <<P_SRC>>, line_ranges |-> <<GOLD_RANGE>>,
                             quotes |-> <<{}>>],
                 citations |-> GOOD_CITATIONS]),
     SutOutcome([answer |-> [paths |-> <<P_OTHER>>, line_ranges |-> <<GOLD_RANGE>>,
                             quotes |-> <<{SYM}>>],
                 citations |-> GOOD_CITATIONS]),
     SutOutcome([answer |-> GOOD_ANSWER, citations |-> <<>>])}

GateInputs ==
    [op : {"gate"}, done : {FALSE},
     outcomes : [1..NumGateCanary -> GateOutcomePool],
     c : {c \in {MakeConfig(pmr, thr, rsm, fr, r100, TRUE, TRUE) :
                    pmr \in BOOLEAN, thr \in ThresholdPool, rsm \in BOOLEAN,
                    fr \in BOOLEAN, r100 \in BOOLEAN} : _validate(c)}]

\* what a SUT process that started may leave on stdout
ShapeOutcomePool ==
    {SUT_TIMEOUT, SUT_EMPTY, SUT_RAW,
     SutOutcome([answer |-> GOOD_ANSWER, citations |-> GOOD_CITATIONS]),
     SutOutcome(NonObject.null), SutOutcome(NonObject.array), SutOutcome(NonObject.string),
     SutOutcome(NonObject.number),
     SutOutcome([answer |-> GOOD_ANSWER, citations |-> GOOD_CITATIONS,
                 timing |-> NonObject.null]),
     SutOutcome([answer |-> GOOD_ANSWER, citations |-> GOOD_CITATIONS,
                 tokens |-> NonObject.null]),
     SutOutcome([answer |-> NonObject.null, citations |-> GOOD_CITATIONS]),
     SutOutcome([answer |-> NonObject.string, citations |-> GOOD_CITATIONS]),
     SutOutcome([answer |-> NonObject.array])}

ShapeInputs ==
    [op : {"sut_shape"}, done : {FALSE},
     task : {[id |-> PureTask, inputs |-> [symbol |-> SYM], tags |-> <<>>]},
     gmap : {EmptyDict, (PureTask :> FixtureGolden(PureTask))},
     outcome : ShapeOutcomePool,
     c : {c \in RunConfigPool : _validate(c)}]

\* the aggregation is drawn rows whose latencies are among five values a
\* SUT may report in timing.latency_ms, _iou pairs of integer ranges, empty
\* and inverted ones included
InitPure ==
    /\ pc = "pure"
    /\ args = [dry_run |-> FALSE, suite |-> "canary", include_variants |-> FALSE]
    /\ cfg = MakeConfig(TRUE, Frac(3, 5), TRUE, TRUE, TRUE, TRUE, TRUE)
    /\ tasks = <<>>
    /\ goldens = EmptyDict
    /\ rows = <<>>
    /\ sutLog = <<>>
    /\ gate = NoGate
    /\ exit_code = NoExit
    /\ run_id = "none"
    /\ reports = {}
    /\ registry = NoRegistry
    /\ stdout = [printed |-> FALSE]
    /\ completed = <<>>
    /\ loaded = [ok |-> FALSE]
    /\ ev \in SuiteStepInputs \cup GateInputs \cup ShapeInputs
                \cup [op : {"aggregate"}, done : {FALSE},
                      latencies : SeqsUpTo({100, 200, 300, 400, 500}, MaxLatencies)]
                \cup [op : {"iou"}, done : {FALSE},
                      a : ((-1)..MaxCoord) \X ((-1)..MaxCoord),
                      b : ((-1)..MaxCoord) \X ((-1)..MaxCoord)]

\* run_localization.py:68-89 on the drawn task, golden map and SUT outcome
EvalSuiteStep ==
    /\ ev.op = "suite_step"
    /\ ~ev.done
    /\ LET pred == call_sut(ev.outcome, Elapsed(ev.outcome, ev.c))
       IN  ev' = [op |-> "suite_step", done |-> TRUE, task |-> ev.task,
                  gmap |-> ev.gmap, outcome |-> ev.outcome, c |-> ev.c,
                  pred |-> pred,
                  row |-> suite_row(ev.task, ev.gmap, pred, ev.c)]
    /\ UNCHANGED runVars

\* run_localization.py:113-136 on the canary tree and the drawn SUT outcomes
EvalGate ==
    /\ ev.op = "gate"
    /\ ~ev.done
    /\ LET ts == suite_tasks(GateFS, <<PATHS_CANARY \o <<"w1_localization">>>>)
           gm == suite_goldens(GateFS, <<PATHS_GOLDENS \o <<"w1_localization">>>>, EmptyDict)
           rs == [i \in 1..Len(ts) |->
                    suite_row(ts[i], gm,
                              call_sut(ev.outcomes[i], Elapsed(ev.outcomes[i], ev.c)),
                              ev.c)]
       IN  ev' = [op |-> "gate", done |-> TRUE, outcomes |-> ev.outcomes,
                  c |-> ev.c, rows |-> rs, result |-> gate_result(ev.c, rs)]
    /\ UNCHANGED runVars

\* run_localization.py:70-89 on a SUT output of any shape: the exception
\* call_sut or _evaluate_task raises leaves the loop, and main, without a row
EvalSutShape ==
    /\ ev.op = "sut_shape"
    /\ ~ev.done
    /\ LET raised == IF call_sut_raises(ev.outcome) THEN "call_sut"
                      ELSE IF _evaluate_task_raises(
                                call_sut(ev.outcome, Elapsed(ev.outcome, ev.c)))
                           THEN "_evaluate_task"
                      ELSE "none"
           pred == IF raised = "call_sut" THEN EmptyDict
                   ELSE call_sut(ev.outcome, Elapsed(ev.outcome, ev.c))
           rws == IF raised = "none"
                  THEN <<suite_row(ev.task, ev.gmap, pred, ev.c)>> ELSE <<>>
       IN  ev' = [op |-> "sut_shape", done |-> TRUE, task |-> ev.task,
                  gmap |-> ev.gmap, outcome |-> ev.outcome, c |-> ev.c,
                  raised |-> raised, pred |-> pred, rows |-> rws]
    /\ UNCHANGED runVars

\* run_localization.py:172-203 and 93-103 on the rows of a suite whose SUT
\* answers well and reports the drawn latencies
EvalAggregate ==
    /\ ev.op = "aggregate"
    /\ ~ev.done
    /\ LET c == MakeConfig(TRUE, Frac(3, 5), TRUE, TRUE, TRUE, TRUE, TRUE)
           task(i) == [id |-> BaseId(i), inputs |-> [symbol |-> SYM], tags |-> <<>>]
           gmap == [t \in {BaseId(i) : i \in 1..Len(ev.latencies)} |-> FixtureGolden(t)]
           pred(i) == call_sut(SutOutcome([answer |-> GOOD_ANSWER,
                                           citations |-> GOOD_CITATIONS,
                                           timing |-> [latency_ms |-> ev.latencies[i]]]),
                               ElapsedMs)
           rs == [i \in 1..Len(ev.latencies) |-> suite_row(task(i), gmap, pred(i), c)]
       IN  ev' = [op |-> "aggregate", done |-> TRUE, latencies |-> ev.latencies,
                  rows |-> rs,
                  summary |-> run_summary("0a1b2c3d", rs, 0),
                  cli |-> _print_cli_summary(rs)]
    /\ UNCHANGED runVars

\* localization.py:5-10 on the drawn ranges, in both orders
EvalIou ==
    /\ ev.op = "iou"
    /\ ~ev.done
    /\ ev' = [op |-> "iou", done |-> TRUE, a |-> ev.a, b |-> ev.b,
               ab |-> _iou(ev.a, ev.b), ba |-> _iou(ev.b, ev.a)]
    /\ UNCHANGED runVars

NextPure ==
    \/ EvalSuiteStep
    \/ EvalGate
    \/ EvalSutShape
    \/ EvalAggregate
    \/ EvalIou

SpecPure == InitPure /\ [][NextPure]_vars

-----------------------------------------------------------------------------
(* The change-impact scoring core, the line scores, the variant generator  *)
(* and the linter taken alone: Init draws the inputs of one of them, the   *)
(* actions apply it.                                                       *)

\* taxonomy.py:59-75, with the W2 labels of lines 15-17.  slo is never
\* empty here.
map_w2_labels(forbidden_hit, anchors_found, anchors_faithful, anchors_required, slo, pred) ==
    LET p1 == IF anchors_found < anchors_required THEN "anchors_missing"
              ELSE IF anchors_faithful < anchors_required THEN "anchors_unfaithful"
              ELSE LABEL_OK
        primary == IF forbidden_hit THEN "forbidden_claim" ELSE p1
        lat == Get(Get(pred, "timing", EmptyDict), "latency_ms", 0)
        tok == Get(pred, "tokens", EmptyDict)
        secondary ==
            (IF lat # 0 /\ lat > slo.p95_latency_ms THEN <<LABEL_LATENCY_SLO>> ELSE <<>>)
            \o (IF \/ Get(tok, "in", 0) > slo.max_tokens_in
                   \/ Get(tok, "out", 0) > slo.max_tokens_out
                   \/ Get(tok, "context", 0) > slo.max_context_tokens
                THEN <<LABEL_COST_SLO>> ELSE <<>>)
    IN  [primary |-> primary, secondary |-> secondary]

\* the symbol of the anchor is not looked for in the rationale
anchor_faithful_no_symbol(req, rationale, cited, examples_for_path, c) ==
    /\ cited # <<>>
    /\ \E i \in 1..Len(examples_for_path), j \in 1..Len(cited) :
          LET qr == <<Get(examples_for_path[i], "start", 0), Get(examples_for_path[i], "end", 0)>>
              cr == <<Get(cited[j], "start", 0), Get(cited[j], "end", 0)>>
          IN  ~FLess(line_iou_scores(<<qr>>, <<cr>>).min, c.thresholds.w1.line_iou_min)

\* run_change_impact.py:12-15 and 29-51: the anchor is cited, its symbol,
\* if it has one, is in the rationale, and a quote range of its path meets
\* a cited range.  The rationale is the set of the strings that occur in
\* its text; a missing symbol is "".
anchor_faithful(req, rationale, cited, examples_for_path, c) ==
    /\ cited # <<>>
    /\ ~(Get(req, "symbol", "") # "" /\ Get(req, "symbol", "") \notin rationale)
    /\ \E i \in 1..Len(examples_for_path), j \in 1..Len(cited) :
          LET qr == <<Get(examples_for_path[i], "start", 0), Get(examples_for_path[i], "end", 0)>>
              cr == <<Get(cited[j], "start", 0), Get(cited[j], "end", 0)>>
          IN  ~FLess(line_iou_scores(<<qr>>, <<cr>>).min, c.thresholds.w1.line_iou_min)

\* run_change_impact.py:18-68.  A missing path is <<>>.
_deterministic_core(task, pred, golden, c) ==
    LET ans == Get(pred, "answer", EmptyDict)
        citations == Get(pred, "citations", <<>>)
        rationale == Get(ans, "rationale", {})
        required == Get(golden, "required_anchors", <<>>)
        examples == Get(golden, "example_quotes", <<>>)
        cited(req) ==
            SelectSeq(citations, LAMBDA ct : Get(ct, "path", <<>>) = Get(req, "path", <<>>))
        examples_for(req) ==
            SelectSeq(examples, LAMBDA q : Get(q, "path", <<>>) = Get(req, "path", <<>>))
        anchors_required == Len(required)
        anchors_found == Cardinality({i \in 1..Len(required) : cited(required[i]) # <<>>})
        anchors_faithful ==
            Cardinality({i \in 1..Len(required) :
                anchor_faithful(required[i], rationale, cited(required[i]),
                                examples_for(required[i]), c)})
        forbidden == \E i \in 1..Len(Get(golden, "forbidden_claims", <<>>)) :
                        /\ golden.forbidden_claims[i] # ""
                        /\ golden.forbidden_claims[i] \in rationale
    IN  [faith |-> evaluate_faithfulness(ans, citations),
         anchors_required |-> anchors_required,
         anchors_found |-> anchors_found,
         anchor_coverage |-> IF anchors_required # 0
                             THEN Frac(anchors_found, anchors_required) ELSE Zero,
         anchors_faithful |-> anchors_faithful,
         anchor_faithful_rate |-> IF anchors_required # 0
                                  THEN Frac(anchors_faithful, anchors_required) ELSE Zero,
         forbidden_hit |-> IF forbidden THEN 1 ELSE 0]

\* run_change_impact.py:91-126: the body of the loop of main for one task,
\* given the prediction call_sut returned; judge.enabled_for_w2 keeps its
\* default, false, and the stub judge of lines 71-77 passes
w2_row(task, gmap, pred, c) ==
    LET gold == Get(gmap, task.id, EmptyDict)
        core == _deterministic_core(task, pred, gold, c)
        labels == map_w2_labels(core.forbidden_hit # 0, core.anchors_found,
                                core.anchors_faithful, core.anchors_required,
                                c.latency_cost_slo, pred)
    IN  [task_id |-> task.id,
         anchors_required |-> core.anchors_required,
         anchors_found |-> core.anchors_found,
         anchor_coverage |-> core.anchor_coverage,
         anchors_faithful |-> core.anchors_faithful,
         anchor_faithful_rate |-> core.anchor_faithful_rate,
         forbidden_hit |-> core.forbidden_hit,
         judge_used |-> 0,
         judge_pass |-> 1,
         faithful_overall |->
            IF /\ FEq(core.anchor_faithful_rate, One)
               /\ core.forbidden_hit = 0
               /\ (core.faith.faithful = 1 \/ ~c.thresholds.w1.faithfulness_required)
            THEN 1 ELSE 0,
         label_primary |-> labels.primary,
         label_secondary |-> labels.secondary,
         latency_ms |-> Get(Get(pred, "timing", EmptyDict), "latency_ms", 0),
         tokens_in |-> Get(Get(pred, "tokens", EmptyDict), "in", 0),
         tokens_out |-> Get(Get(pred, "tokens", EmptyDict), "out", 0)]

\* lint_eval.py:175-189 with the six checks of lines 22-172 and get_config
\* (config.py:120-179), on a harness h: the configured directories that do
\* not exist, whether config.yaml has an unknown top-level key, the state
\* of the CI workflow file, the W1 tasks without golden, the files missing
\* under eval/runner, whether the registry file, the canary policy and the
\* judge prompt exist.  Files that exist have the contents the checks look
\* for, and reports/ has no run directory.  An error is <<message, detail>>.
\* The result is the list printed after FAIL:, or an abort of get_config,
\* or the crash of an open() of a file that is not there.
lint_main(h) ==
    LET dirs == <<"scenarios", "goldens", "canary", "judges", "reports", "registry">>
        missing == SelectSeq(dirs, LAMBDA name : name \in h.missing_dirs)
        check_config ==
            IF h.unknown_keys THEN <<<<"Unknown top-level config keys", "extra">>>> ELSE <<>>
        check_paths ==
            [i \in 1..Len(missing) |-> <<"Missing directory", missing[i]>>]
            \o (CASE h.ci = "missing" -> <<<<"Missing CI workflow", ".github/workflows/evals.yml">>>>
                  [] h.ci = "no_suite" -> <<<<"CI does not call run_localization with --suite", "">>>>
                  [] OTHER -> <<>>)
        check_scenarios_vs_goldens ==
            [i \in 1..Len(h.orphans) |-> <<"W1 task without golden", h.orphans[i]>>]
        _scan(path) ==
            IF path \in h.missing_files THEN <<<<"Missing file", path>>>> ELSE <<>>
        check_runner_contracts ==
            _scan("run_localization.py") \o _scan("run_change_impact.py")
        check_reports_registry ==
            (IF "reports" \in h.missing_dirs
             THEN <<<<"Reports directory missing or empty", "">>>> ELSE <<>>)
            \o (IF ~h.registry_file
                THEN <<<<"Registry file not found (runs.parquet or runs.csv)", "">>>>
                ELSE <<>>)
        check_judges_and_policy ==
            (IF ~h.prompt THEN <<<<"Missing judge prompt.md", "">>>> ELSE <<>>)
            \o (IF ~h.policy THEN <<<<"Missing eval/policies/canary_policy.md", "">>>> ELSE <<>>)
        errors == check_config \o check_paths \o check_scenarios_vs_goldens
                  \o check_runner_contracts \o check_reports_registry
                  \o check_judges_and_policy
    IN  IF missing # <<>>
        THEN \* config.py:142-145, from main line 178
             [outcome |-> "SystemExit", stderr |-> <<"Missing required directories", missing>>,
              printed |-> <<>>, exit_code |-> 1]
        ELSE IF "common.py" \in h.missing_files
        THEN \* lint_eval.py:120
             [outcome |-> "FileNotFoundError", stderr |-> <<"eval/runner/common.py", <<>>>>,
              printed |-> <<>>, exit_code |-> 1]
        ELSE IF "run_change_impact.py" \in h.missing_files
        THEN \* lint_eval.py:168
             [outcome |-> "FileNotFoundError",
              stderr |-> <<"eval/runner/run_change_impact.py", <<>>>>,
              printed |-> <<>>, exit_code |-> 1]
        ELSE [outcome |-> IF errors # <<>> THEN "FAIL" ELSE "PASS", stderr |-> <<"", <<>>>>,
              printed |-> errors, exit_code |-> IF errors # <<>> THEN 1 ELSE 0]

\* the inputs of the operations.  A change-impact task is drawn with
\* a golden of no, one or two required anchors (with or without example
\* quotes) or without golden, and a SUT that times out or answers with a
\* rationale and citations of its choice.  Line scores are drawn for lists
\* of ranges that are equal, nested, adjacent, apart or empty.  Variants
\* are generated from a source directory with no, one or two goldens and
\* no variants yet.  The linter is drawn a harness with any of its
\* inconsistencies.
UnitInputs ==
    LET anchor(p, sym) == IF sym = "" THEN [path |-> p] ELSE [path |-> p, symbol |-> sym]
        quote(p, e) == [path |-> p, start |-> 1, end |-> e]
        w2_goldens ==
            {[task_id |-> PureTask, required_anchors |-> ra, example_quotes |-> eq,
              forbidden_claims |-> <<"is safe">>] :
                <<ra, eq>> \in
                  {<<<<>>, <<>>>>,
                   <<<<anchor(P_SRC, SYM)>>, <<quote(P_SRC, MaxLine)>>>>,
                   <<<<anchor(P_SRC, SYM)>>, <<>>>>,
                   <<<<anchor(P_SRC, "")>>, <<quote(P_SRC, MaxLine)>>>>,
                   <<<<anchor(P_SRC, SYM), anchor(P_OTHER, "gdm_init")>>,
                     <<quote(P_SRC, MaxLine), quote(P_OTHER, MaxLine)>>>>}}
        w2_answers ==
            {[answer |-> [rationale |-> ra, paths |-> <<P_SRC>>, quotes |-> qs],
              citations |-> cs] :
                ra \in {{}, {SYM}, {SYM, "gdm_init"}, {SYM, "gdm_init", "is safe"}},
                qs \in {<<>>, <<{SYM}>>},
                cs \in {<<>>, <<quote(P_SRC, MaxLine)>>, <<quote(P_SRC, 2)>>,
                        <<quote(P_OTHER, MaxLine)>>,
                        <<quote(P_SRC, MaxLine), quote(P_OTHER, MaxLine)>>,
                        <<[start |-> 1, end |-> MaxLine]>>}}
        variant_source(i, p) ==
            [task_id |-> BaseId(i), paths |-> <<p>>, line_ranges |-> <<GOLD_RANGE>>,
             quotes |-> <<{SYM}>>, provenance |-> [repo |-> "gdm", commit |-> "c0ffee"]]
        pred_pool == {<<1, 3>>, <<2, 2>>, <<5, 3>>, <<0, 7>>}
        gold_pool == {<<1, 3>>, <<2, 2>>, <<5, 3>>, <<0, 10>>, <<3, 5>>}
    IN  [op : {"w2_task"}, done : {FALSE},
         task : {[id |-> PureTask, inputs |-> EmptyDict, tags |-> <<>>]},
         gmap : {EmptyDict} \cup {(PureTask :> g) : g \in w2_goldens},
         outcome : {SUT_TIMEOUT} \cup {SutOutcome(v) : v \in w2_answers},
         c : {MakeConfig(TRUE, thr, TRUE, fr, TRUE, TRUE, TRUE) :
                thr \in ThresholdPool, fr \in BOOLEAN}]
        \cup
        [op : {"variants"}, done : {FALSE},
         base : {<<>>, <<variant_source(1, P_SRC)>>,
                 <<variant_source(1, P_SRC), variant_source(2, P_OTHER)>>,
                 <<[task_id |-> BaseId(1), paths |-> <<P_SRC>>,
                    line_ranges |-> <<GOLD_RANGE>>, quotes |-> <<{SYM}>>,
                    symbol |-> <<"gdm", "_display">>]>>},
         vfile : {<<>>}, tfiles : {EmptyDict}, calls : {<<>>}]
        \cup
        [op : {"lint"}, done : {FALSE},
         h : [missing_dirs : {{}, {"judges"}, {"scenarios", "reports"}},
              unknown_keys : BOOLEAN,
              ci : {"ok", "missing", "no_suite"},
              orphans : {<<>>, <<BaseId(1)>>},
              missing_files : SUBSET {"run_localization.py", "run_change_impact.py",
                                      "common.py"},
              registry_file : BOOLEAN, policy : BOOLEAN, prompt : {TRUE}]]
        \cup
        [op : {"near_name"}, done : {FALSE},
         symbol : SeqsUpTo({"gdm", "_display", "_create", "_init", "s"}, MaxNameLen)]
        \cup
        [op : {"line_iou"}, done : {FALSE},
         pred : SeqsUpTo(pred_pool, MaxPredRanges),
         gold : {<<>>} \cup {<<g>> : g \in gold_pool}
                \cup {<<g, h>> : <<g, h>> \in gold_pool \X gold_pool}]

InitUnits ==
    /\ pc = "unit"
    /\ args = [dry_run |-> FALSE, suite |-> "w2", include_variants |-> FALSE]
    /\ cfg = MakeConfig(TRUE, Frac(3, 5), TRUE, TRUE, TRUE, TRUE, TRUE)
    /\ tasks = <<>>
    /\ goldens = EmptyDict
    /\ rows = <<>>
    /\ sutLog = <<>>
    /\ gate = NoGate
    /\ exit_code = NoExit
    /\ run_id = "none"
    /\ reports = {}
    /\ registry = NoRegistry
    /\ stdout = [printed |-> FALSE]
    /\ completed = <<>>
    /\ loaded = [ok |-> FALSE]
    /\ ev \in UnitInputs

\* run_change_impact.py:91-126 on the drawn task, golden map and SUT outcome
EvalW2Task ==
    /\ ev.op = "w2_task"
    /\ ~ev.done
    /\ LET pred == call_sut(ev.outcome, Elapsed(ev.outcome, ev.c))
       IN  ev' = [op |-> "w2_task", done |-> TRUE, task |-> ev.task,
                  gmap |-> ev.gmap, outcome |-> ev.outcome, c |-> ev.c,
                  pred |-> pred,
                  core |-> _deterministic_core(ev.task, pred,
                                               Get(ev.gmap, ev.task.id, EmptyDict), ev.c),
                  row |-> w2_row(ev.task, ev.gmap, pred, ev.c)]
    /\ UNCHANGED runVars

\* localization.py:19-30 on the drawn range lists
EvalLineIou ==
    /\ ev.op = "line_iou"
    /\ ~ev.done
    /\ ev' = [op |-> "line_iou", done |-> TRUE, pred |-> ev.pred, gold |-> ev.gold,
               res |-> line_iou_scores(ev.pred, ev.gold),
               f64 |-> line_iou_scores_f64(ev.pred, ev.gold)]
    /\ UNCHANGED runVars

\* variants.py:47-60 on the drawn symbol
EvalNearName ==
    /\ ev.op = "near_name"
    /\ ~ev.done
    /\ ev' = [op |-> "near_name", done |-> TRUE, symbol |-> ev.symbol,
               res |-> near_name(ev.symbol)]
    /\ UNCHANGED runVars

\* variants.py:186-195: one run of the generator on the directories as the
\* runs before left them, with a limit and kinds of the caller's choice.
\* calls keeps what each run loaded, derived from and wrote.
GenerateVariants ==
    /\ ev.op = "variants"
    /\ Len(ev.calls) < MaxGenerations
    /\ \E limit \in {1, 3, MaxLimit},
          kinds \in {<<"case">>, <<"case", "vendor">>,
                     <<"reexport", "test", "shadow", "nearname">>} :
          LET g == generate_variants(ev.base, ev.vfile, ev.tfiles, limit, kinds)
          IN  ev' = [op |-> "variants", done |-> TRUE, base |-> ev.base,
                     vfile |-> g.vfile, tfiles |-> g.tfiles,
                     calls |-> Append(ev.calls,
                                 [limit |-> limit, kinds |-> kinds, loaded |-> g.loaded,
                                  sources |-> g.sources,
                                  variant_tasks |-> g.variant_tasks,
                                  variant_goldens |-> g.variant_goldens])]
    /\ UNCHANGED runVars

\* lint_eval.py:175-189 on the drawn harness
RunLint ==
    /\ ev.op = "lint"
    /\ ~ev.done
    /\ ev' = [op |-> "lint", done |-> TRUE, h |-> ev.h, res |-> lint_main(ev.h)]
    /\ UNCHANGED runVars

NextUnits ==
    \/ EvalW2Task
    \/ RunLint
    \/ GenerateVariants
    \/ EvalNearName
    \/ EvalLineIou

SpecUnits == InitUnits /\ [][NextUnits]_vars

-----------------------------------------------------------------------------
(* Properties of the localization runner (checked under Spec) *)

FullCalls == SelectSeq(sutLog, LAMBDA e : e.phase = "full")
\* the rows appended to either file, as the runs wrote them
csv_written(line) ==
    [k \in ToSet(line.fieldnames) |->
        line.values[CHOOSE i \in 1..Len(line.fieldnames) : line.fieldnames[i] = k]]

RegistryRows ==
    registry.parquet
    \o [i \in 1..Len(registry.csv.lines) |-> csv_written(registry.csv.lines[i])]
IsFullRun == ~args.dry_run /\ args.suite # "canary"

\* C1: in a run that is neither dry-run nor canary-only, once the gate has
\* failed with run.fail_fast_on_canary set, the only step left is the exit
\* with the gate's non-zero code: the SUT is never invoked on a full-suite
\* task, no run id is drawn, no report is written and no registry row is
\* appended.
C1_FailFastAborts ==
    (IsFullRun /\ gate.done /\ gate.code # 0 /\ cfg.run.fail_fast_on_canary) =>
        /\ pc \in {"gate_returned", "exited"}
        /\ pc = "gate_returned" => (ENABLED FailFastExit /\ ~ENABLED FullLoad)
        /\ pc = "exited" => (exit_code = gate.code /\ exit_code # 0)
        /\ FullCalls = <<>>
        /\ run_id = "none"
        /\ reports = {}
        /\ RegistryRows = <<>>

C1_Witness ==
    /\ IsFullRun /\ cfg.run.fail_fast_on_canary
    /\ pc = "exited" /\ gate.code = 1 /\ exit_code = 1
    /\ Len(sutLog) = NumCanary

\* C2: when the gate failed and run.fail_fast_on_canary is off the run never
\* exits early; once it is done the SUT was invoked on every loaded task in
\* order with one row each, the report of the run and exactly one registry
\* row exist, and both record canary_pass = FALSE.  canary_pass = TRUE is
\* recorded only when the gate returned 0.
C2_GateFailureWithoutFailFast ==
    /\ (IsFullRun /\ gate.done /\ gate.code # 0 /\ ~cfg.run.fail_fast_on_canary) =>
          /\ pc \in {"gate_returned", "full", "done"}
          /\ exit_code = NoExit
          /\ pc = "done" =>
                /\ Len(rows) = Len(tasks)
                /\ Len(FullCalls) = Len(tasks)
                /\ \A i \in 1..Len(tasks) :
                      /\ FullCalls[i].task_id = tasks[i].id
                      /\ rows[i].task_id = tasks[i].id
                /\ \E r \in reports :
                      /\ r.run_id = run_id
                      /\ r.by_task = rows
                      /\ r.summary.canary_pass = FALSE
                /\ Len(RegistryRows) = 1
                /\ RegistryRows[1].run_id = run_id
                /\ RegistryRows[1].canary_pass = FALSE
    /\ \A r \in reports : r.summary.canary_pass = TRUE => gate.code = 0
    /\ \A i \in 1..Len(RegistryRows) :
          RegistryRows[i].canary_pass = TRUE => gate.code = 0

C2_Witness ==
    /\ pc = "done" /\ gate.code = 1 /\ ~cfg.run.fail_fast_on_canary
    /\ Len(rows) >= NumBase
    /\ Len(RegistryRows) = 1 /\ RegistryRows[1].canary_pass = FALSE

IsVariantTask(tid) == \E i \in 1..NumVariants : tid = VariantId(i)

\* C5 (as claimed): in every full-suite pass no task is invoked twice and the
\* rows hold exactly one row per loaded task id.
C5_OneRowPerTask ==
    /\ \A i, j \in 1..Len(FullCalls) :
          i # j => FullCalls[i].task_id # FullCalls[j].task_id
    /\ pc = "done" => Len(rows) = Cardinality({tasks[i].id : i \in 1..Len(tasks)})

\* C6 (as claimed): a task stored under `variants` is invoked in the full
\* suite only when --include-variants is given and variants.enabled is set.
C6_VariantsOnlyOnRequest ==
    \A i \in 1..Len(FullCalls) :
        IsVariantTask(FullCalls[i].task_id) =>
            (args.include_variants /\ cfg.variants.enabled)

\* the suite the rows belong to
PhaseOf ==
    IF pc \in {"canary", "gate_returned", "exited"} THEN "canary"
    ELSE IF pc \in {"full", "done"} THEN "full"
    ELSE "none"

PhaseCalls == SelectSeq(sutLog, LAMBDA e : e.phase = PhaseOf)

IsTimeoutPred(p) == Get(p, "error", "") = "timeout"

\* C13: in each suite the SUT invocations and the rows follow the loaded
\* tasks one to one and in order, so a timed-out task is invoked once and
\* never again; its row has faithful = 0, reason cite_missing and primary
\* label missing_path; the run does not exit inside a suite, and a suite
\* that is over has as many rows as loaded tasks, whichever tasks timed out.
C13_TimeoutNoRetryNoAbort ==
    /\ Len(PhaseCalls) = Len(rows)
    /\ Len(rows) <= Len(tasks)
    /\ \A i \in 1..Len(PhaseCalls) :
          /\ PhaseCalls[i].task_id = tasks[i].id
          /\ rows[i].task_id = tasks[i].id
          /\ IsTimeoutPred(PhaseCalls[i].pred) =>
                /\ rows[i].faithful = 0
                /\ rows[i].faithfulness_reason = "cite_missing"
                /\ rows[i].label_primary = LABEL_MISSING_PATH
    /\ pc \in {"canary", "full"} => exit_code = NoExit
    /\ pc \in {"gate_returned", "exited", "done"} => Len(rows) = Len(tasks)

\* the first task of the full suite timed out, the second was answered
C13_Witness ==
    /\ pc = "done" /\ Len(tasks) >= NumBase /\ Len(rows) = Len(tasks)
    /\ IsTimeoutPred(FullCalls[1].pred) /\ rows[1].faithfulness_reason = "cite_missing"
    /\ ~IsTimeoutPred(FullCalls[2].pred) /\ rows[2].faithful = 1

\* the summary.json of the run in progress
RunSummaryOf(rid) == (CHOOSE r \in reports : r.run_id = rid).summary

PathAndFaithful(rs) ==
    Frac(Cardinality({i \in 1..Len(rs) : rs[i].path_match = 1 /\ rs[i].faithful = 1}),
         IMax(Len(rs), 1))

\* C17 (as claimed): the accuracy_localization of the summary and of the
\* registry row is the fraction of the rows with path_match = 1 and
\* faithful = 1, and is the accuracy the CLI summary computes for the rows.
C17_AccuracyIsPathAndFaithful ==
    pc = "done" =>
        /\ FEq(RunSummaryOf(run_id).accuracy_localization, PathAndFaithful(rows))
        /\ \A i \in 1..Len(RegistryRows) :
              FEq(RegistryRows[i].accuracy_localization, PathAndFaithful(rows))
        /\ ~stdout.no_tasks =>
              FEq(RunSummaryOf(run_id).accuracy_localization, stdout.accuracy)

\* the kind a task card's tag list names
TaskKind(task) == first_known_kind(Get(task, "tags", <<>>))

\* C18 (as claimed): accuracy_by_variant_kind has one entry per kind named by
\* the tag lists of the evaluated tasks, the row of a task counting under the
\* first known kind among its tags and under normal only without one.
C18_BreakdownByTaskTags ==
    pc = "done" =>
        LET abk == RunSummaryOf(run_id).accuracy_by_variant_kind
            of_kind(k) == {i \in 1..Len(tasks) : TaskKind(tasks[i]) = k}
        IN  /\ DOMAIN abk = {TaskKind(tasks[i]) : i \in 1..Len(tasks)}
            /\ \A k \in DOMAIN abk :
                  FEq(abk[k],
                      Frac(Cardinality({i \in of_kind(k) : rows[i].passed # 0}),
                           IMax(Cardinality(of_kind(k)), 1)))

-----------------------------------------------------------------------------
(* Properties of the registry over several runs (checked under SpecRuns) *)

\* C15 (as claimed): no two rows of the run registry carry the same run_id.
C15_RunIdUnique ==
    \A i, j \in 1..Len(RegistryRows) :
        i # j => RegistryRows[i].run_id # RegistryRows[j].run_id

CompletedIn(parquet_ok) == SelectSeq(completed, LAMBDA r : r.parquet = parquet_ok)

LoadedRunIds ==
    {loaded.rows[i].run_id :
        i \in {j \in 1..Len(loaded.rows) : "run_id" \in DOMAIN loaded.rows[j]}}

\* C16 (as claimed): each file of the registry holds, in order and unchanged,
\* the rows of the runs that appended to it, one per completed run; and the
\* registry the Run Comparator loads (pandas and pyarrow being importable)
\* holds the run_id of every run completed by then.
C16_AppendOnlyAndLoaded ==
    /\ Len(RegistryRows) = Len(completed)
    /\ registry.parquet = [i \in 1..Len(CompletedIn(TRUE)) |-> CompletedIn(TRUE)[i].row]
    /\ \A i \in 1..Len(registry.csv.lines) :
          csv_written(registry.csv.lines[i]) = CompletedIn(FALSE)[i].row
    /\ ("at" \in DOMAIN loaded /\ loaded.at = Len(completed)
            /\ loaded.env.pandas /\ loaded.env.pyarrow /\ completed # <<>>) =>
          /\ loaded.ok
          /\ \A i \in 1..Len(completed) : completed[i].run_id \in LoadedRunIds

-----------------------------------------------------------------------------
(* Properties of the evaluation functions (checked under SpecPure) *)

StepDone == ev.op = "suite_step" /\ ev.done
GateDone == ev.op = "gate" /\ ev.done

EvPredPaths == ToSet(Get(Get(ev.pred, "answer", EmptyDict), "paths", <<>>))
EvGold == Get(ev.gmap, ev.task.id, EmptyDict)
EvGoldPaths == ToSet(Get(EvGold, "paths", <<>>))
EvW1 == ev.c.thresholds.w1

\* the names of the required checks a row fails, read off the row
FailedChecks(c, r) ==
    {k \in {"path_match", "line_iou_min", "symbol_match", "faithful"} :
        \/ k = "path_match" /\ c.thresholds.w1.path_match_required /\ r.path_match # 1
        \/ k = "line_iou_min" /\ FLess(r.line_iou_min, c.thresholds.w1.line_iou_min)
        \/ k = "symbol_match" /\ c.thresholds.w1.require_symbol_match /\ r.symbol_match # 1
        \/ k = "faithful" /\ c.thresholds.w1.faithfulness_required /\ r.faithful # 1}

\* C3: assert_canary_gate returns 1 iff require_100_percent is set and some
\* canary row fails a check, 0 otherwise; its failure list names exactly the
\* canary tasks failing a check, once each, each with exactly its failed
\* checks.
C3_CanaryGate ==
    GateDone =>
        LET rs == ev.rows
            fl == ev.result.failures
            failing == {i \in 1..Len(rs) : FailedChecks(ev.c, rs[i]) # {}}
        IN  /\ ev.result.code \in {0, 1}
            /\ ev.result.code = 1 <=>
                  (ev.c.thresholds.canary.require_100_percent /\ failing # {})
            /\ {fl[k].task_id : k \in 1..Len(fl)} = {rs[i].task_id : i \in failing}
            /\ Len(fl) = Cardinality(failing)
            /\ \A k \in 1..Len(fl) : \A i \in 1..Len(rs) :
                  rs[i].task_id = fl[k].task_id =>
                      /\ ToSet(fl[k].checks) = FailedChecks(ev.c, rs[i])
                      /\ Len(fl[k].checks) = Cardinality(FailedChecks(ev.c, rs[i]))

\* three canary tasks, one of which fails line_iou_min only
C3_Witness ==
    /\ GateDone /\ Len(ev.rows) = 3
    /\ ev.result.code = 1
    /\ ev.result.failures = <<[task_id |-> CanaryId(2), checks |-> <<"line_iou_min">>]>>

\* C4: passed is 1 iff (path_match = 1 or path_match_required is off) and
\* line_iou_min >= thresholds.w1.line_iou_min and (symbol_match = 1 or
\* require_symbol_match is off) and (faithful = 1 or faithfulness_required is
\* off), and 0 otherwise.
C4_PassedIsConjunction ==
    StepDone =>
        /\ ev.row.passed \in {0, 1}
        /\ ev.row.passed = 1 <=>
              /\ (ev.row.path_match = 1 \/ ~EvW1.path_match_required)
              /\ ~FLess(ev.row.line_iou_min, EvW1.line_iou_min)
              /\ (ev.row.symbol_match = 1 \/ ~EvW1.require_symbol_match)
              /\ (ev.row.faithful = 1 \/ ~EvW1.faithfulness_required)

\* every optional check fails and is off, and the task passes
C4_Witness ==
    /\ StepDone /\ ev.row.passed = 1
    /\ ev.row.path_match = 0 /\ ev.row.symbol_match = 0 /\ ev.row.faithful = 0

\* C7 (as claimed): the row of a task without golden record has the primary
\* label missing_path whatever the SUT predicted.
C7_NoGoldenIsMissingPath ==
    (StepDone /\ ev.task.id \notin DOMAIN ev.gmap) =>
        ev.row.label_primary = LABEL_MISSING_PATH

\* C7 (amended): a task without golden record is scored against the empty
\* golden and yields its row; the primary label is missing_path when the
\* SUT predicted no paths or thresholds.w1.line_iou_min is 0, and wrong_line
\* otherwise.
C7_NoGoldenLabel ==
    (StepDone /\ ev.task.id \notin DOMAIN ev.gmap) =>
        /\ ev.row.task_id = ev.task.id
        /\ ev.row.path_match = (IF EvPredPaths = {} THEN 1 ELSE 0)
        /\ ev.row.line_iou_min = Zero
        /\ ev.row.label_primary =
              IF EvPredPaths = {} \/ FEq(EvW1.line_iou_min, Zero)
              THEN LABEL_MISSING_PATH ELSE LABEL_WRONG_LINE

C7_Witness ==
    /\ StepDone /\ ev.task.id \notin DOMAIN ev.gmap
    /\ EvPredPaths # {} /\ FEq(EvW1.line_iou_min, Zero)
    /\ ev.row.label_primary = LABEL_MISSING_PATH

\* C8 (as claimed): a prediction without paths against a golden with paths
\* has primary label missing_path and passed = 0 under every accepted
\* threshold configuration.
C8_EmptyPathsNeverPass ==
    (StepDone /\ EvPredPaths = {} /\ EvGoldPaths # {}) =>
        (ev.row.label_primary = LABEL_MISSING_PATH /\ ev.row.passed = 0)

\* C8 (amended): a prediction without paths against a golden with paths has
\* primary label missing_path under every accepted configuration, and
\* passed = 0 under every accepted configuration with path_match_required.
C8_EmptyPathsFailWhenPathRequired ==
    (StepDone /\ EvPredPaths = {} /\ EvGoldPaths # {}) =>
        /\ ev.row.label_primary = LABEL_MISSING_PATH
        /\ ev.row.path_match = 0
        /\ EvW1.path_match_required => ev.row.passed = 0

\* the SUT prints an answer with ranges, quotes and citations but no paths
C8_Witness ==
    /\ StepDone /\ EvPredPaths = {} /\ EvGoldPaths # {}
    /\ ev.outcome.kind = "exit" /\ EvW1.path_match_required
    /\ FEq(ev.row.line_iou_min, One) /\ ev.row.faithful = 1 /\ ev.row.symbol_match = 1
    /\ ev.row.passed = 0 /\ ev.row.label_primary = LABEL_MISSING_PATH

\* C9: the primary label is the first match of: no predicted paths gives
\* missing_path; golden has paths and the predicted set differs gives
\* wrong_path; line_iou_min below the threshold gives wrong_line; else ok if
\* the golden has paths, else missing_path.  It is one of these four labels.
C9_PrimaryPrecedence ==
    StepDone =>
        /\ ev.row.label_primary \in
              {LABEL_MISSING_PATH, LABEL_WRONG_PATH, LABEL_WRONG_LINE, LABEL_OK}
        /\ ev.row.label_primary =
              IF EvPredPaths = {} THEN LABEL_MISSING_PATH
              ELSE IF EvGoldPaths # {} /\ EvPredPaths # EvGoldPaths THEN LABEL_WRONG_PATH
              ELSE IF FLess(ev.row.line_iou_min, EvW1.line_iou_min) THEN LABEL_WRONG_LINE
              ELSE IF EvGoldPaths # {} THEN LABEL_OK
              ELSE LABEL_MISSING_PATH

\* a wrong path set and a line miss together: the path rule wins
C9_Witness ==
    /\ StepDone /\ EvPredPaths # {} /\ EvGoldPaths # {} /\ EvPredPaths # EvGoldPaths
    /\ FLess(ev.row.line_iou_min, EvW1.line_iou_min)
    /\ ev.row.label_primary = LABEL_WRONG_PATH

\* the names between the "/" of a path, in order
RECURSIVE Segments(_)
Segments(p) ==
    IF \A i \in 1..Len(p) : p[i] # "/" THEN <<p>>
    ELSE LET k == CHOOSE i \in 1..Len(p) :
                    p[i] = "/" /\ \A j \in 1..(i - 1) : p[j] # "/"
         IN  <<SubSeq(p, 1, k - 1)>> \o Segments(SubSeq(p, k + 1, Len(p)))

\* p has a directory (a segment before the file name) named by one of names
HasDirSegment(p, names) ==
    \E i \in 1..(Len(Segments(p)) - 1) : Segments(p)[i] \in names

\* C10 (as claimed): vendor_hit is a secondary label iff some predicted path
\* has a directory segment vendor or third_party, test_instead_of_src iff
\* some predicted path has a directory segment test or tests, wherever the
\* segment stands in the path, the first place included.
C10_SegmentHeuristics ==
    StepDone =>
        /\ LABEL_VENDOR_HIT \in ToSet(ev.row.label_secondary) <=>
              \E p \in EvPredPaths :
                  HasDirSegment(p, {<<"vendor">>, <<"third_party">>})
        /\ LABEL_TEST_INSTEAD_OF_SRC \in ToSet(ev.row.label_secondary) <=>
              \E p \in EvPredPaths :
                  HasDirSegment(p, {<<"test">>, <<"test", "s">>})

EvAnswer == Get(ev.pred, "answer", EmptyDict)
EvQuotes == Get(EvAnswer, "quotes", <<>>)
EvCitations == Get(ev.pred, "citations", <<>>)
EvCitedPaths ==
    {EvCitations[i].path :
        i \in {j \in 1..Len(EvCitations) : "path" \in DOMAIN EvCitations[j]}}

\* C11: the faithfulness reason of a row is the first that applies of: no
\* citations gives cite_missing; answer paths non-empty and none of them a
\* citation path gives cite_irrelevant; no quotes gives no_quotes; else ok.
\* faithful is 1 iff the reason is ok, and 0 otherwise.
C11_FaithfulnessOrder ==
    StepDone =>
        /\ ev.row.faithfulness_reason =
              IF EvCitations = <<>> THEN "cite_missing"
              ELSE IF EvPredPaths # {} /\ EvPredPaths \cap EvCitedPaths = {}
                   THEN "cite_irrelevant"
              ELSE IF EvQuotes = <<>> THEN "no_quotes"
              ELSE "ok"
        /\ ev.row.faithful \in {0, 1}
        /\ ev.row.faithful = 1 <=> ev.row.faithfulness_reason = "ok"

\* citations beside the answer's paths and no quotes: cite_irrelevant wins
C11_Witness ==
    /\ StepDone /\ EvCitations # <<>> /\ EvQuotes = <<>>
    /\ EvPredPaths # {} /\ EvPredPaths \cap EvCitedPaths = {}
    /\ ev.row.faithfulness_reason = "cite_irrelevant" /\ ev.row.faithful = 0

EvTimedOut == StepDone /\ ev.outcome.kind = "timeout"

ShapeDone == ev.op = "sut_shape" /\ ev.done

\* C14 (as claimed): whatever a SUT process that started leaves on stdout,
\* call_sut and the evaluation of the task raise nothing and the task gets
\* its scored row; stdout that does not parse is kept under `raw`.
C14_AnyShapeScored ==
    ShapeDone =>
        /\ ev.raised = "none"
        /\ Len(ev.rows) = 1
        /\ ev.outcome = SUT_RAW => Get(ev.pred, "raw", "") = SUT_RAW.text

AggDone == ev.op = "aggregate" /\ ev.done

\* v has 0-based rank k among the values of s in ascending order
HasRank(s, v, k) ==
    /\ \E i \in 1..Len(s) : s[i] = v
    /\ Cardinality({i \in 1..Len(s) : s[i] < v}) <= k
    /\ Cardinality({i \in 1..Len(s) : s[i] <= v}) >= k + 1

\* C19: for n > 0 row latencies the p95 of the summary and of the CLI summary
\* is the latency of 0-based rank floor(0.95 * (n - 1)) in ascending order,
\* one of the observed latencies; without rows the p95 of the summary is 0.
C19_P95NearestRank ==
    AggDone =>
        LET n == Len(ev.latencies)
            k == CHOOSE j \in 0..n : 20 * j <= 19 * (n - 1) /\ 19 * (n - 1) < 20 * (j + 1)
        IN  /\ n = 0 => (ev.summary.p95_latency_ms = 0 /\ ev.cli.no_tasks)
            /\ n > 0 =>
                  /\ HasRank(ev.latencies, ev.summary.p95_latency_ms, k)
                  /\ ev.cli.p95 = ev.summary.p95_latency_ms
                  /\ ev.summary.p95_latency_ms \in ToSet(ev.latencies)

\* the latencies 100..500 out of order: the p95 is 400, not the maximum
C19_Witness ==
    /\ AggDone /\ ev.latencies = <<500, 100, 400, 200, 300>>
    /\ ev.summary.p95_latency_ms = 400 /\ ev.cli.p95 = 400

IouDone == ev.op = "iou" /\ ev.done

\* the integer points of the half-open range [start, end)
Points(r) == {x \in (-1)..MaxCoord : r[1] <= x /\ x < r[2]}

\* C20: for all integer ranges a and b, empty and inverted ones included,
\* _iou(a, b) = _iou(b, a) and 0 <= _iou(a, b) <= 1; it is 0 when the ranges
\* are disjoint or their union is empty, and otherwise the number of common
\* points over the number of points of the union.
C20_IouSymmetricBounded ==
    IouDone =>
        LET common == Cardinality(Points(ev.a) \cap Points(ev.b))
            all == Cardinality(Points(ev.a) \cup Points(ev.b))
        IN  /\ FEq(ev.ab, ev.ba)
            /\ ~FLess(ev.ab, Zero) /\ ~FLess(One, ev.ab)
            /\ (common = 0 \/ all = 0) => FEq(ev.ab, Zero)
            /\ all > 0 => FEq(ev.ab, Frac(common, all))

\* an inverted range against one that covers it
C20_Witness ==
    /\ IouDone /\ ev.a = <<3, 1>> /\ ev.b = <<0, MaxCoord>>
    /\ FEq(ev.ab, Zero) /\ FEq(ev.ba, Zero)

EvAllRequired ==
    /\ EvW1.path_match_required /\ EvW1.require_symbol_match
    /\ EvW1.faithfulness_required /\ FLess(Zero, EvW1.line_iou_min)

\* C28: when path_match_required, require_symbol_match and
\* faithfulness_required are on and line_iou_min > 0, every row with
\* passed = 1 has the primary label ok.
C28_PassedImpliesOk ==
    (StepDone /\ EvAllRequired /\ ev.row.passed = 1) =>
        ev.row.label_primary = LABEL_OK

PercentilesOrdered(summary) ==
    \/ FLess(summary.p50_latency_ms, Frac(summary.p95_latency_ms, 1))
    \/ FEq(summary.p50_latency_ms, Frac(summary.p95_latency_ms, 1))

\* C29: in every run summary over at least one row the p95 latency is at
\* least the p50 latency, the median of the same latencies.
C29_P95AtLeastP50 ==
    (AggDone /\ Len(ev.latencies) >= 1) => PercentilesOrdered(ev.summary)


-----------------------------------------------------------------------------
(* Properties of the line scores and of the change-impact core *)

LineDone == ev.op = "line_iou" /\ ev.done

Proper(r) == r[1] < r[2]

\* every predicted range repeats one of the golden ranges exactly
RepeatsGolden ==
    /\ LineDone /\ ev.pred # <<>>
    /\ \A i \in 1..Len(ev.pred) : \E j \in 1..Len(ev.gold) : ev.pred[i] = ev.gold[j]

\* C21 as stated: for every line range r the IoU of r with itself is 1.0,
\* so a prediction that is one golden range, repeated exactly, scores
\* line_iou_min = 1.0.
C21_IdenticalIouOne ==
    (RepeatsGolden /\ Len(ev.pred) = 1) => FEq(ev.res.min, One)

\* C21 amended: a predicted range with start < end that repeats a golden
\* range scores 1.0, whatever other golden ranges there are; one with
\* start >= end scores 0.0 even against itself.  A prediction that repeats
\* golden ranges has line_iou_min = 1.0 iff all its ranges have start < end.
C21_ProperIdenticalIouOne ==
    RepeatsGolden =>
        /\ \A i \in 1..Len(ev.pred) :
              FEq(ev.res.per_pair[i], IF Proper(ev.pred[i]) THEN One ELSE Zero)
        /\ FEq(ev.res.min, One) <=> \A i \in 1..Len(ev.pred) : Proper(ev.pred[i])

\* the repeated golden range is the second of two
C21_Witness ==
    /\ RepeatsGolden /\ ev.pred = <<<<1, 3>>>> /\ ev.gold = <<<<0, 10>>, <<1, 3>>>>
    /\ FEq(ev.res.min, One)

\* the float x raised by n units in the last place
RECURSIVE F64Above(_, _)
F64Above(x, n) == IF n = 0 THEN x ELSE F64Above(F64Round(x, TRUE), n - 1)

F64One == F64Div(1, 1)

\* the per-range values are the maxima over the golden ranges, min is
\* their minimum and lies in [0, 1], both scores are 0.0 when a list is
\* empty, and one more golden range lowers neither score
LineScoresShape ==
    LET n == Len(ev.pred)
        res == ev.res
    IN  /\ (ev.pred = <<>> \/ ev.gold = <<>>) =>
              /\ res.min = Zero /\ res.avg = Zero
              /\ ev.f64.min = F64Zero /\ ev.f64.avg = F64Zero
        /\ (ev.pred # <<>> /\ ev.gold # <<>>) =>
              /\ \A i \in 1..n :
                    /\ \A j \in 1..Len(ev.gold) :
                          ~FLess(res.per_pair[i], _iou(ev.pred[i], ev.gold[j]))
                    /\ \E j \in 1..Len(ev.gold) :
                          FEq(res.per_pair[i], _iou(ev.pred[i], ev.gold[j]))
              /\ \A i \in 1..n : ~FLess(res.per_pair[i], res.min)
              /\ \E i \in 1..n : FEq(res.per_pair[i], res.min)
              /\ ev.f64.min = F64Div(res.min[1], res.min[2])
              /\ ~FLess(res.min, Zero) /\ ~FLess(One, res.min)
              /\ ~F64Less(F64One, ev.f64.avg)
              /\ \A h \in {<<1, 3>>, <<0, 10>>, <<7, 9>>} :
                    LET more == line_iou_scores_f64(ev.pred, ev.gold \o <<h>>)
                    IN  ~F64Less(more.min, ev.f64.min) /\ ~F64Less(more.avg, ev.f64.avg)

W2Done == ev.op = "w2_task" /\ ev.done

EvGolden == Get(ev.gmap, ev.task.id, EmptyDict)

\* some citation of the prediction references the path of the anchor
AnchorFound(a) ==
    \E i \in 1..Len(Get(ev.pred, "citations", <<>>)) :
        Get(ev.pred.citations[i], "path", <<>>) = a.path

\* the anchor is found, its symbol, if it names one, occurs in the
\* rationale, and some example quote of its path has IoU >= line_iou_min
\* with some citation of that path
AnchorFaithful(a) ==
    /\ AnchorFound(a)
    /\ "symbol" \in DOMAIN a => a.symbol \in Get(Get(ev.pred, "answer", EmptyDict), "rationale", {})
    /\ \E i \in 1..Len(EvGolden.example_quotes), j \in 1..Len(ev.pred.citations) :
          LET q == EvGolden.example_quotes[i]
              ct == ev.pred.citations[j]
          IN  /\ q.path = a.path /\ Get(ct, "path", <<>>) = a.path
              /\ ~FLess(_iou(<<q.start, q.end>>, <<ct.start, ct.end>>),
                        ev.c.thresholds.w1.line_iou_min)

\* C23: faithful_overall = 1 iff the anchor faithful rate is 100%, no
\* forbidden claim was hit and the citation-level faithfulness is 1 or
\* thresholds.w1.faithfulness_required is false; anchors_found counts the
\* required anchors whose path some citation references, anchors_faithful
\* those that moreover have their symbol in the rationale and an example
\* quote range meeting a citation range of that path with IoU >=
\* line_iou_min, so anchors_faithful <= anchors_found <= anchors_required.
C23_FaithfulOverall ==
    W2Done =>
        LET required == Get(EvGolden, "required_anchors", <<>>)
            row == ev.row
        IN  /\ row.anchors_required = Len(required)
            /\ row.anchors_found =
                  Cardinality({i \in 1..Len(required) : AnchorFound(required[i])})
            /\ row.anchors_faithful =
                  Cardinality({i \in 1..Len(required) : AnchorFaithful(required[i])})
            /\ row.anchors_faithful <= row.anchors_found
            /\ row.anchors_found <= row.anchors_required
            /\ row.faithful_overall \in {0, 1}
            /\ row.faithful_overall = 1 <=>
                  /\ row.anchors_required > 0
                  /\ row.anchors_faithful = row.anchors_required
                  /\ row.forbidden_hit = 0
                  /\ \/ ev.core.faith.faithful = 1
                     \/ ~ev.c.thresholds.w1.faithfulness_required

\* two anchors, both cited, one of them without its symbol in the
\* rationale: found 2, faithful 1, not faithful overall
C23_Witness ==
    /\ W2Done /\ ev.row.anchors_required = 2 /\ ev.row.anchors_found = 2
    /\ ev.row.anchors_faithful = 1 /\ ev.row.faithful_overall = 0
    /\ ev.row.forbidden_hit = 0 /\ ev.core.faith.faithful = 1

\* C30: for every change-impact row the primary label is ok iff the row
\* passes the deterministic core, anchor_faithful_rate = 1.0 and
\* forbidden_hit = 0; a task without required anchors or without golden
\* record, which fails the core, is not labelled ok.
C30_LabelAgreesWithCore ==
    W2Done =>
        (ev.row.label_primary = LABEL_OK <=>
            (FEq(ev.row.anchor_faithful_rate, One) /\ ev.row.forbidden_hit = 0))

-----------------------------------------------------------------------------
(* Properties of the variant generator *)

\* C27: for every non-empty symbol s, near_name(s) differs from s and is s
\* with exactly one character added, the s that pluralises its suffix:
\* near_name(gdm_display_factory_create_display) is
\* gdm_display_factory_create_displays.
C27_NearNameOneEdit ==
    (ev.op = "near_name" /\ ev.done /\ ev.symbol # <<>>) =>
        ev.res = ev.symbol \o <<"s">>

VariantsRun == ev.op = "variants" /\ ev.calls # <<>>

\* the golden records of the source directory after the run
StoredGoldens == ToSet(ev.base) \cup ToSet(ev.vfile)

\* C24: every variant the last run generated carries the paths,
\* line_ranges and quotes of its source golden, its task the paths and
\* line_ranges as acceptance criteria, and the record of the source golden
\* is in the source directory after the run as it was loaded.
C24_TruthPreserved ==
    VariantsRun =>
        LET call == ev.calls[Len(ev.calls)]
        IN  \A i \in 1..Len(call.variant_goldens) :
                LET v == call.variant_goldens[i]
                    t == call.variant_tasks[i]
                    g == call.sources[i]
                IN  /\ v.paths = g.paths /\ v.line_ranges = g.line_ranges
                    /\ v.quotes = g.quotes
                    /\ t.acceptance_criteria.paths = g.paths
                    /\ t.acceptance_criteria.line_ranges = g.line_ranges
                    /\ v.provenance.from_task = g.task_id
                    /\ g \in StoredGoldens

\* C25: a run of generate_variants that follows one with the same limit
\* and kinds on the same directories writes the same variant tasks and
\* variant goldens, and every variant is derived from an original golden.
C25_Repeatable ==
    VariantsRun =>
        \A k \in 2..Len(ev.calls) :
            (ev.calls[k].limit = ev.calls[k - 1].limit
                /\ ev.calls[k].kinds = ev.calls[k - 1].kinds) =>
                /\ ev.calls[k].variant_tasks = ev.calls[k - 1].variant_tasks
                /\ ev.calls[k].variant_goldens = ev.calls[k - 1].variant_goldens
                /\ ToSet(ev.calls[k].sources) \subseteq ToSet(ev.base)

-----------------------------------------------------------------------------
(* Properties of the linter *)

\* the inconsistencies of the harness the six checks look for
Inconsistencies(h) ==
    {<<"Missing directory", d>> : d \in h.missing_dirs}
    \cup {<<"Missing file", f>> : f \in h.missing_files}
    \cup {<<"W1 task without golden", t>> : t \in ToSet(h.orphans)}
    \cup (IF h.unknown_keys THEN {<<"Unknown top-level config keys", "extra">>} ELSE {})
    \cup (IF h.ci = "missing"
          THEN {<<"Missing CI workflow", ".github/workflows/evals.yml">>} ELSE {})
    \cup (IF h.ci = "no_suite"
          THEN {<<"CI does not call run_localization with --suite", "">>} ELSE {})
    \cup (IF ~h.registry_file
          THEN {<<"Registry file not found (runs.parquet or runs.csv)", "">>} ELSE {})
    \cup (IF ~h.policy THEN {<<"Missing eval/policies/canary_policy.md", "">>} ELSE {})

\* C26: one lint invocation runs all six checks and prints every
\* inconsistency of the harness in one list, whatever the earlier checks
\* found, and exits non-zero iff there is at least one.
C26_LintReportsAll ==
    (ev.op = "lint" /\ ev.done) =>
        /\ ev.res.outcome \in {"PASS", "FAIL"}
        /\ Inconsistencies(ev.h) \subseteq ToSet(ev.res.printed)
        /\ ev.res.exit_code # 0 <=> Inconsistencies(ev.h) # {}
====
